---- MODULE Spec2Model ----
(***************************************************************************)
(* Scene synthesis and compositing engine of the studio renderer:          *)
(* Compositor (composite.py), ShadowGenerator (shadows.py),                *)
(* ReflectionGenerator (reflection.py) and the part of                     *)
(* SpyneCloneProcessor.process (process_image.py) that chains them.        *)
(*                                                                         *)
(* Arrays are records [h, w, d] with d a function on (0..h-1) \X (0..w-1). *)
(* A grey array holds integers 0..255, a colour array holds triples, a     *)
(* float32 array holds fixed-point numbers with FloatScale units per 1.0.  *)
(***************************************************************************)
EXTENDS Integers, Sequences, FiniteSets, TLC

VARIABLES
    pc,               \* position of the running call
    background,       \* composite_final argument
    car_image,        \* composite_final argument (BGR)
    car_mask,         \* composite_final argument
    shadows,          \* composite_final argument: shadow_type -> array / None / absent
    reflection,       \* composite_final argument
    reflection_mask,  \* composite_final argument
    car_position,     \* composite_final argument: <<x, y>> or <<>> for None
    output_size,      \* composite_final argument: <<w, h>> or <<>> for None
    result,           \* composite_final local: the float32 buffer blended in place
    xy,               \* composite_final locals x, y
    shadow_idx,       \* composite_final: position of the for loop over the shadow types
    ops,              \* the blend calls made so far, in order
    final,            \* the returned image
    args,             \* arguments of the pure function called last
    ret               \* what that function returned

vars == <<pc, background, car_image, car_mask, shadows, reflection, reflection_mask,
          car_position, output_size, result, xy, shadow_idx, ops, final, args, ret>>

compositeVars == <<background, car_image, car_mask, shadows, reflection, reflection_mask,
                   car_position, output_size, result, xy, shadow_idx, ops, final>>

(***************************************************************************)
(* Bounds of the model.                                                    *)
(***************************************************************************)
CanvasW == 3
CanvasH == 3
MaxLayer == 2
FloatScale == 4096
ShadowW == 3
ShadowH == 8
ReflW == 2
ReflH == 5
MaxCar == 4
MaxTarget == 5

(***************************************************************************)
(* Numbers.                                                                *)
(***************************************************************************)
MaxPixel == 255

Max(a, b) == IF a >= b THEN a ELSE b
Min(a, b) == IF a <= b THEN a ELSE b
Abs(a) == IF a < 0 THEN -a ELSE a

\* n / d rounded to the nearest integer, n >= 0, d > 0
RoundDiv(n, d) == (2 * n + d) \div (2 * d)

\* int(n / d) of Python: truncation toward zero
TruncDiv(n, d) == IF n >= 0 THEN n \div d ELSE -((-n) \div d)

(***************************************************************************)
(* numpy arrays.                                                           *)
(***************************************************************************)
NoneVal == [h |-> -1, w |-> -1, d |-> <<>>]
ErrVal == [h |-> -2, w |-> -2, d |-> <<>>]
Absent == [h |-> -3, w |-> -3, d |-> <<>>]
IsNone(a) == a.h = -1
IsErr(a) == a.h = -2
IsAbsent(a) == a.h = -3
IsArray(a) == a.h >= 0

\* the array of h rows and w columns holding F(y, x); the comparison makes the
\* function an explicit table, so that a pixel is computed once
Arr(h, w, F(_, _)) ==
    LET f == [p \in (0 .. (h - 1)) \X (0 .. (w - 1)) |-> F(p[1], p[2])]
    IN  [h |-> h, w |-> w, d |-> IF f = <<>> THEN <<>> ELSE f]

At(a, y, x) == a.d[<<y, x>>]
Size(a) == a.h * a.w
Zeros(h, w) == Arr(h, w, LAMBDA y, x: 0)
Pixels(a) == (0 .. (a.h - 1)) \X (0 .. (a.w - 1))

\* a[lo:hi] on an axis of length n: the start index and the length numpy uses
PyIdx(i, n) == IF i < 0 THEN Max(i + n, 0) ELSE Min(i, n)
SliceStart(lo, hi, n) == PyIdx(lo, n)
SliceLen(lo, hi, n) == Max(0, PyIdx(hi, n) - PyIdx(lo, n))

\* a[y0:y1, x0:x1]
Crop(a, y0, y1, x0, x1) ==
    LET ys == SliceStart(y0, y1, a.h)
        xs == SliceStart(x0, x1, a.w)
    IN  Arr(SliceLen(y0, y1, a.h), SliceLen(x0, x1, a.w),
            LAMBDA y, x: At(a, ys + y, xs + x))

\* cv2.flip(a, 0)
FlipV(a) == Arr(a.h, a.w, LAMBDA y, x: At(a, a.h - 1 - y, x))

(***************************************************************************)
(* cv2.resize, INTER_LINEAR on 8-bit data: source coordinate               *)
(* (dx + 0.5) * sw / dw - 0.5, weights in 1/2048, rounded sum.             *)
(***************************************************************************)
LinIdx(dx, sw, dw) ==
    LET n == (2 * dx + 1) * sw - dw
        den == 2 * dw
        s == n \div den
    IN  IF s < 0 THEN [i |-> 0, a |-> 0]
        ELSE IF s >= sw - 1 THEN [i |-> sw - 1, a |-> 0]
        ELSE [i |-> s, a |-> RoundDiv((n - s * den) * 2048, den)]

LinSample(v00, v01, v10, v11, ax, ay) ==
    ((2048 - ay) * ((2048 - ax) * v00 + ax * v01)
      + ay * ((2048 - ax) * v10 + ax * v11) + 2097152) \div 4194304

ResizeLinear(a, dw, dh) ==
    IF dw <= 0 \/ dh <= 0 \/ ~IsArray(a) \/ Size(a) = 0 THEN ErrVal
    ELSE IF dw = a.w /\ dh = a.h THEN a
    ELSE Arr(dh, dw, LAMBDA y, x:
            LET ix == LinIdx(x, a.w, dw)
                iy == LinIdx(y, a.h, dh)
                x1 == Min(ix.i + 1, a.w - 1)
                y1 == Min(iy.i + 1, a.h - 1)
            IN  LinSample(At(a, iy.i, ix.i), At(a, iy.i, x1),
                          At(a, y1, ix.i), At(a, y1, x1), ix.a, iy.a))

Channel(a, c) == Arr(a.h, a.w, LAMBDA y, x: At(a, y, x)[c])
Merge(c1, c2, c3) == Arr(c1.h, c1.w, LAMBDA y, x: <<At(c1, y, x), At(c2, y, x), At(c3, y, x)>>)

ResizeLinear3(a, dw, dh) ==
    IF dw <= 0 \/ dh <= 0 \/ ~IsArray(a) \/ Size(a) = 0 THEN ErrVal
    ELSE Merge(ResizeLinear(Channel(a, 1), dw, dh),
               ResizeLinear(Channel(a, 2), dw, dh),
               ResizeLinear(Channel(a, 3), dw, dh))

(***************************************************************************)
(* Compositor._blend_layer (composite.py 115-160).                         *)
(***************************************************************************)
\* the regions without the source offsets: the layer is always read from its corner
blend_layer_regions_from_corner(bh, bw, lh, lw, x, y) ==
    LET x1 == Max(0, x)
        y1 == Max(0, y)
        x2 == Min(bw, x + lw)
        y2 == Min(bh, y + lh)
    IN  [x1 |-> x1, y1 |-> y1, x2 |-> x2, y2 |-> y2,
         lx1 |-> 0, ly1 |-> 0, lx2 |-> x2 - x1, ly2 |-> y2 - y1]

\* the overlap regions computed at lines 130-138
blend_layer_regions(bh, bw, lh, lw, x, y) ==
    LET x1 == Max(0, x)
        y1 == Max(0, y)
        x2 == Min(bw, x + lw)
        y2 == Min(bh, y + lh)
        lx1 == Max(0, -x)
        ly1 == Max(0, -y)
    IN  [x1 |-> x1, y1 |-> y1, x2 |-> x2, y2 |-> y2,
         lx1 |-> lx1, ly1 |-> ly1,
         lx2 |-> lx1 + (x2 - x1), ly2 |-> ly1 + (y2 - y1)]

\* the guard of line 140
blend_layer_empty(r) == r.x2 <= r.x1 \/ r.y2 <= r.y1

\* astype(np.float32) of an 8-bit value
FloatOf(v) == v * FloatScale

\* base * (1 - mask / 255.0) + layer * (mask / 255.0), one channel
AlphaBlend(b, l, m) == RoundDiv(b * (MaxPixel - m) + FloatOf(l) * m, MaxPixel)

\* the channel order left as it is
BGR2RGB_skipped(p) == p

\* cv2.COLOR_BGR2RGB on one pixel
BGR2RGB(p) == <<p[3], p[2], p[1]>>

\* numpy broadcasting of two axis lengths
Compatible(a, b) == a = b \/ a = 1 \/ b = 1
Broadcast(a, b) == IF a = 1 THEN b ELSE a
BIdx(i, n) == IF n = 1 THEN 0 ELSE i

\* returns the base after the call, or ErrVal when the call raises
blend_layer(base, layer, mask, x, y) ==
    LET r == blend_layer_regions(base.h, base.w, layer.h, layer.w, x, y)
    IN  IF blend_layer_empty(r) THEN base
        ELSE
          LET base_region == Crop(base, r.y1, r.y2, r.x1, r.x2)
              layer_region == Crop(layer, r.ly1, r.ly2, r.lx1, r.lx2)
              mask_region == Crop(mask, r.ly1, r.ly2, r.lx1, r.lx2)
              ys == SliceStart(r.y1, r.y2, base.h)
              xs == SliceStart(r.x1, r.x2, base.w)
              shapes_ok ==
                  /\ Size(layer_region) > 0
                  /\ Compatible(base_region.h, mask_region.h)
                  /\ Compatible(base_region.w, mask_region.w)
                  /\ Compatible(layer_region.h, mask_region.h)
                  /\ Compatible(layer_region.w, mask_region.w)
                  /\ Compatible(base_region.h, layer_region.h)
                  /\ Compatible(base_region.w, layer_region.w)
                  /\ Broadcast(Broadcast(base_region.h, mask_region.h), layer_region.h)
                        \in {base_region.h, 1}
                  /\ Broadcast(Broadcast(base_region.w, mask_region.w), layer_region.w)
                        \in {base_region.w, 1}
          IN  IF ~shapes_ok THEN ErrVal
              ELSE Arr(base.h, base.w, LAMBDA py, px:
                      IF py >= ys /\ py < ys + base_region.h
                         /\ px >= xs /\ px < xs + base_region.w
                      THEN LET i == py - ys
                               j == px - xs
                               b == At(base_region, i, j)
                               l == BGR2RGB(At(layer_region, BIdx(i, layer_region.h),
                                                             BIdx(j, layer_region.w)))
                               m == At(mask_region, BIdx(i, mask_region.h),
                                                    BIdx(j, mask_region.w))
                           IN  <<AlphaBlend(b[1], l[1], m), AlphaBlend(b[2], l[2], m),
                                 AlphaBlend(b[3], l[3], m)>>
                      ELSE At(base, py, px))

(***************************************************************************)
(* Compositor._blend_shadow (composite.py 162-187).                        *)
(***************************************************************************)
\* base * (1 + shadow / 255.0): the factor with the wrong sign
Multiply_brighten(b, s) == RoundDiv(b * (MaxPixel + s), MaxPixel)

\* base * (1 - shadow / 255.0), one channel
Multiply(b, s) == RoundDiv(b * (MaxPixel - s), MaxPixel)

blend_shadow(base, shadow) ==
    LET sh == IF shadow.h # base.h \/ shadow.w # base.w
              THEN ResizeLinear(shadow, base.w, base.h) ELSE shadow
    IN  IF IsErr(sh) THEN ErrVal
        ELSE Arr(base.h, base.w, LAMBDA y, x:
                LET b == At(base, y, x)
                    s == At(sh, y, x)
                IN  <<Multiply(b[1], s), Multiply(b[2], s), Multiply(b[3], s)>>)

(***************************************************************************)
(* Compositor.composite_final (composite.py 35-113), statement by          *)
(* statement.                                                              *)
(***************************************************************************)
\* the shadow types in the order of SHADOW_CONFIG instead
ShadowOrder_config == <<"contact", "ambient", "drop">>

ShadowOrder == <<"drop", "ambient", "contact">>

\* lines 81-87
default_position(out_w, out_h, car_w, car_h) ==
    LET horizon_y == TruncDiv(out_h * 65, 100)
    IN  <<(out_w - car_w) \div 2, horizon_y - car_h + TruncDiv(car_h * 10, 100)>>

ToFloat3(a) == Arr(a.h, a.w, LAMBDA y, x:
                  <<FloatOf(At(a, y, x)[1]), FloatOf(At(a, y, x)[2]), FloatOf(At(a, y, x)[3])>>)

\* np.clip(v, 0, 255).astype(np.uint8), one channel
ClipByte(v) == Min(Max(v, 0), FloatOf(MaxPixel)) \div FloatScale

ClipToBytes(a) == Arr(a.h, a.w, LAMBDA y, x:
                     <<ClipByte(At(a, y, x)[1]), ClipByte(At(a, y, x)[2]),
                       ClipByte(At(a, y, x)[3])>>)

\* lines 68-87, on arguments already bound
composite_begin ==
    /\ pc = "call"
    /\ LET bg == IF output_size # <<>>
                 THEN ResizeLinear3(background, output_size[1], output_size[2])
                 ELSE background
       IN  IF IsErr(bg)
           THEN /\ pc' = "raised"
                /\ UNCHANGED <<result, xy>>
           ELSE /\ result' = ToFloat3(bg)
                /\ xy' = IF car_position = <<>>
                         THEN default_position(bg.w, bg.h, car_image.w, car_image.h)
                         ELSE car_position
                /\ pc' = "reflection"
    /\ UNCHANGED <<background, car_image, car_mask, shadows, reflection, reflection_mask,
                   car_position, output_size, shadow_idx, ops, final, args, ret>>

\* lines 89-92
composite_reflection ==
    /\ pc = "reflection"
    /\ IF ~IsNone(reflection) /\ ~IsNone(reflection_mask)
       THEN LET b == blend_layer(result, reflection, reflection_mask,
                                 xy[1], xy[2] + car_image.h)
            IN  IF IsErr(b)
                THEN /\ pc' = "raised"
                     /\ UNCHANGED <<result, ops>>
                ELSE /\ result' = b
                     /\ ops' = Append(ops, "reflection")
                     /\ pc' = "shadows"
       ELSE /\ pc' = "shadows"
            /\ UNCHANGED <<result, ops>>
    /\ shadow_idx' = 1
    /\ UNCHANGED <<background, car_image, car_mask, shadows, reflection, reflection_mask,
                   car_position, output_size, xy, final, args, ret>>

\* lines 95-108, one iteration of the loop
composite_shadow ==
    /\ pc = "shadows"
    /\ LET shadow_type == ShadowOrder[shadow_idx]
           shadow == shadows[shadow_type]
           next_pc == IF shadow_idx = Len(ShadowOrder) THEN "car" ELSE "shadows"
       IN  IF IsAbsent(shadow) \/ IsNone(shadow) \/ Size(shadow) = 0
           THEN /\ pc' = next_pc
                /\ UNCHANGED <<result, ops>>
           ELSE LET b == blend_shadow(result, shadow)
                IN  IF IsErr(b)
                    THEN /\ pc' = "raised"
                         /\ UNCHANGED <<result, ops>>
                    ELSE /\ result' = b
                         /\ ops' = Append(ops, shadow_type)
                         /\ pc' = next_pc
    /\ shadow_idx' = shadow_idx + 1
    /\ UNCHANGED <<background, car_image, car_mask, shadows, reflection, reflection_mask,
                   car_position, output_size, xy, final, args, ret>>

\* lines 110-111
composite_car ==
    /\ pc = "car"
    /\ LET b == blend_layer(result, car_image, car_mask, xy[1], xy[2])
       IN  IF IsErr(b)
           THEN /\ pc' = "raised"
                /\ UNCHANGED <<result, ops>>
           ELSE /\ result' = b
                /\ ops' = Append(ops, "car")
                /\ pc' = "return"
    /\ UNCHANGED <<background, car_image, car_mask, shadows, reflection, reflection_mask,
                   car_position, output_size, xy, shadow_idx, final, args, ret>>

\* the return with the blends made in the background buffer itself (no copy at line 76)
composite_return_in_place ==
    /\ pc = "return"
    /\ final' = ClipToBytes(result)
    /\ background' = IF output_size = <<>> THEN ClipToBytes(result) ELSE background
    /\ pc' = "done"
    /\ UNCHANGED <<car_image, car_mask, shadows, reflection, reflection_mask,
                   car_position, output_size, result, xy, shadow_idx, ops, args, ret>>

\* line 113
composite_return ==
    /\ pc = "return"
    /\ final' = ClipToBytes(result)
    /\ pc' = "done"
    /\ UNCHANGED <<background, car_image, car_mask, shadows, reflection, reflection_mask,
                   car_position, output_size, result, xy, shadow_idx, ops, args, ret>>

composite_final ==
    \/ composite_begin
    \/ composite_reflection
    \/ composite_shadow
    \/ composite_car
    \/ composite_return

(***************************************************************************)
(* Inputs of composite_final drawn by the calls of the model.              *)
(***************************************************************************)
\* an RGB background whose pixels and channels all differ
Bg(k) == Arr(CanvasH, CanvasW, LAMBDA y, x: <<200 - 20 * y - k, 100 + 10 * x + k, 50 + y + 3 * x>>)

\* a BGR subject whose pixels and channels all differ
Car(h, w) == Arr(h, w, LAMBDA y, x: <<10 + 30 * y + x, 120 + 7 * x + y, 250 - y - 2 * x>>)

MaskOf(kind, h, w) ==
    CASE kind = "zero" -> Zeros(h, w)
      [] kind = "full" -> Arr(h, w, LAMBDA y, x: MaxPixel)
      [] OTHER -> Arr(h, w, LAMBDA y, x:
                     IF y = 0 /\ x = 0 THEN MaxPixel
                     ELSE IF (y + x) % 2 = 1 THEN 102 ELSE 0)

\* a shadow entry of the dict: missing key, None, an empty array, or a layer
ShadowOf(kind, t) ==
    CASE kind = "absent" -> Absent
      [] kind = "None" -> NoneVal
      [] kind = "empty" -> Zeros(0, 0)
      [] OTHER -> Arr(CanvasH, CanvasW, LAMBDA y, x:
                     IF t = "drop" THEN 51 * ((x + y) % 3)
                     ELSE IF t = "ambient" THEN (IF x = y THEN MaxPixel ELSE 0)
                     ELSE 102)

ShadowKinds(t) ==
    IF t = "drop" THEN {"absent", "None", "empty", "layer"}
    ELSE IF t = "ambient" THEN {"absent", "None", "layer"}
    ELSE {"absent", "empty", "layer"}
MaskKinds == {"zero", "full", "mixed"}
CarSizes == {<<1, 1>>, <<MaxLayer, MaxLayer>>}
Positions == {<<>>, <<-1, -1>>, <<0, 0>>, <<1, -1>>, <<0, CanvasH - 1>>, <<CanvasW - 1, 0>>}
OutputSizes == {<<>>, <<CanvasW - 1, CanvasH - 1>>}
ReflectionKinds == {"none", "no_mask", "given"}

call_composite_final ==
    /\ pc = "idle"
    /\ \E k \in 1 .. 2, cs \in CarSizes, mk \in MaskKinds, rk \in ReflectionKinds,
          p \in Positions, os \in OutputSizes,
          sd \in ShadowKinds("drop"), sa \in ShadowKinds("ambient"),
          sc \in ShadowKinds("contact"):
          /\ background' = Bg(k)
          /\ car_image' = Car(cs[2], cs[1])
          /\ car_mask' = MaskOf(mk, cs[2], cs[1])
          /\ shadows' = [t \in {"drop", "ambient", "contact"} |->
                            ShadowOf(IF t = "drop" THEN sd
                                     ELSE IF t = "ambient" THEN sa ELSE sc, t)]
          /\ reflection' = IF rk = "none" THEN NoneVal ELSE FlipV(Car(cs[2], cs[1]))
          /\ reflection_mask' = IF rk = "given"
                                THEN Arr(cs[2], cs[1], LAMBDA y, x: 153 - 51 * y)
                                ELSE NoneVal
          /\ car_position' = p
          /\ output_size' = os
    /\ args' = [fn |-> "composite_final", background |-> background',
                car_image |-> car_image', car_mask |-> car_mask', shadows |-> shadows',
                reflection |-> reflection', reflection_mask |-> reflection_mask']
    /\ pc' = "call"
    /\ ops' = <<>>
    /\ UNCHANGED <<result, xy, shadow_idx, final, ret>>

Init ==
    /\ pc = "idle"
    /\ background = NoneVal
    /\ car_image = NoneVal
    /\ car_mask = NoneVal
    /\ shadows = [t \in {"drop", "ambient", "contact"} |-> Absent]
    /\ reflection = NoneVal
    /\ reflection_mask = NoneVal
    /\ car_position = <<>>
    /\ output_size = <<>>
    /\ result = NoneVal
    /\ xy = <<0, 0>>
    /\ shadow_idx = 1
    /\ ops = <<>>
    /\ final = NoneVal
    /\ args = <<>>
    /\ ret = NoneVal

Next ==
    \/ call_composite_final
    \/ composite_begin
    \/ composite_reflection
    \/ composite_shadow
    \/ composite_car
    \/ composite_return

Spec == Init /\ [][Next]_vars

(***************************************************************************)
(* C1: composite_final blends in the order reflection (only when both the  *)
(* reflection and its mask are given), drop, ambient, contact (a missing   *)
(* key, None and an empty array skipped), subject: at every moment the     *)
(* blends made so far are a prefix of that list, and at the return they    *)
(* are the whole list, so the subject is the last write.                   *)
(***************************************************************************)
IsPrefix(s, t) == Len(s) <= Len(t) /\ \A i \in 1 .. Len(s): s[i] = t[i]

Blended(t) ==
    IF IsAbsent(shadows[t]) \/ IsNone(shadows[t]) \/ Size(shadows[t]) = 0 THEN <<>> ELSE <<t>>

MandatedOrder ==
    (IF ~IsNone(reflection) /\ ~IsNone(reflection_mask) THEN <<"reflection">> ELSE <<>>)
      \o Blended("drop") \o Blended("ambient") \o Blended("contact") \o <<"car">>

C1_LayerOrder ==
    pc \in {"call", "reflection", "shadows", "car", "return", "done"} =>
        /\ IsPrefix(ops, MandatedOrder)
        /\ pc \in {"return", "done"} => ops = MandatedOrder

C1_Witness ==
    /\ pc = "done"
    /\ ops = <<"reflection", "drop", "ambient", "contact", "car">>

(***************************************************************************)
(* C3: every canvas pixel inside the placed subject rectangle whose mask   *)
(* value is 255 holds, in the returned image, the subject's pixel with its *)
(* channels reordered from BGR to RGB, whatever lies underneath.           *)
(***************************************************************************)
InSubject(p) ==
    /\ p[1] - xy[2] \in 0 .. (car_image.h - 1)
    /\ p[2] - xy[1] \in 0 .. (car_image.w - 1)

SubjectAt(p) == At(car_image, p[1] - xy[2], p[2] - xy[1])
MaskAt(p) == At(car_mask, p[1] - xy[2], p[2] - xy[1])

C3_OpaqueSubjectExact ==
    pc = "done" =>
        \A p \in Pixels(final):
            (InSubject(p) /\ MaskAt(p) = 255) =>
                final.d[p] = <<SubjectAt(p)[3], SubjectAt(p)[2], SubjectAt(p)[1]>>

C3_Witness ==
    /\ pc = "done"
    /\ Len(ops) = 5
    /\ \E p \in Pixels(final):
          /\ InSubject(p)
          /\ MaskAt(p) = 255
          /\ shadows["contact"].d[p] > 0
          /\ final.d[p] # background.d[p]

(***************************************************************************)
(* ReflectionGenerator.add_reflection_to_composite (reflection.py 167-212).*)
(***************************************************************************)
\* the bounds computed at lines 192-196
add_reflection_regions(bg_h, bg_w, ref_h, ref_w, x, y) ==
    [y1 |-> Max(0, y), y2 |-> Min(bg_h, y + ref_h),
     x1 |-> Max(0, x), x2 |-> Min(bg_w, x + ref_w),
     ry1 |-> Max(0, -y), ry2 |-> Min(ref_h, bg_h - y),
     rx1 |-> Max(0, -x), rx2 |-> Min(ref_w, bg_w - x)]

\* returns the image the call returns, or ErrVal when it raises
add_reflection_to_composite(bg, refl, refl_mask, x, y) ==
    LET r == add_reflection_regions(bg.h, bg.w, refl.h, refl.w, x, y)
    IN  IF r.y2 <= r.y1 \/ r.x2 <= r.x1 THEN bg
        ELSE
          LET bg_region == Crop(bg, r.y1, r.y2, r.x1, r.x2)
              ref_region == Crop(refl, r.ry1, r.ry2, r.rx1, r.rx2)
              mask_region == Crop(refl_mask, r.ry1, r.ry2, r.rx1, r.rx2)
              ys == SliceStart(r.y1, r.y2, bg.h)
              xs == SliceStart(r.x1, r.x2, bg.w)
              shapes_ok ==
                  /\ Compatible(bg_region.h, mask_region.h)
                  /\ Compatible(bg_region.w, mask_region.w)
                  /\ Compatible(ref_region.h, mask_region.h)
                  /\ Compatible(ref_region.w, mask_region.w)
                  /\ Compatible(bg_region.h, ref_region.h)
                  /\ Compatible(bg_region.w, ref_region.w)
                  /\ Broadcast(Broadcast(bg_region.h, mask_region.h), ref_region.h)
                        \in {bg_region.h, 1}
                  /\ Broadcast(Broadcast(bg_region.w, mask_region.w), ref_region.w)
                        \in {bg_region.w, 1}
          IN  IF ~shapes_ok THEN ErrVal
              ELSE Arr(bg.h, bg.w, LAMBDA py, px:
                      IF py >= ys /\ py < ys + bg_region.h
                         /\ px >= xs /\ px < xs + bg_region.w
                      THEN LET i == py - ys
                               j == px - xs
                               b == At(bg_region, i, j)
                               l == At(ref_region, BIdx(i, ref_region.h), BIdx(j, ref_region.w))
                               m == At(mask_region, BIdx(i, mask_region.h),
                                                    BIdx(j, mask_region.w))
                           IN  <<ClipByte(AlphaBlend(FloatOf(b[1]), l[1], m)),
                                 ClipByte(AlphaBlend(FloatOf(b[2]), l[2], m)),
                                 ClipByte(AlphaBlend(FloatOf(b[3]), l[3], m))>>
                      ELSE At(bg, py, px))

(***************************************************************************)
(* Calls of the two clipping blends with a layer at any position.          *)
(***************************************************************************)
LayerSizes == (1 .. (MaxLayer + 1)) \X (1 .. (MaxLayer + 1))
ClipXs == (-(MaxLayer + 1)) .. (CanvasW + 1)
ClipYs == (-(MaxLayer + 1)) .. (CanvasH + 1)

call_blend_layer ==
    /\ pc = "idle"
    /\ \E ls \in LayerSizes, x \in ClipXs, y \in ClipYs:
          LET base == ToFloat3(Bg(1))
              layer == Car(ls[2], ls[1])
              mask == MaskOf("mixed", ls[2], ls[1])
          IN  /\ args' = [fn |-> "_blend_layer", base |-> base, layer |-> layer,
                          mask |-> mask, x |-> x, y |-> y]
              /\ ret' = blend_layer(base, layer, mask, x, y)
    /\ pc' = "returned"
    /\ UNCHANGED compositeVars

call_add_reflection_to_composite ==
    /\ pc = "idle"
    /\ \E ls \in LayerSizes, x \in ClipXs, y \in ClipYs:
          LET base == Bg(2)
              layer == Car(ls[2], ls[1])
              mask == MaskOf("mixed", ls[2], ls[1])
          IN  /\ args' = [fn |-> "add_reflection_to_composite", base |-> base,
                          layer |-> layer, mask |-> mask, x |-> x, y |-> y]
              /\ ret' = add_reflection_to_composite(base, layer, mask, x, y)
    /\ pc' = "returned"
    /\ UNCHANGED compositeVars

NextClip ==
    \/ call_blend_layer
    \/ call_add_reflection_to_composite

SpecClip == Init /\ [][NextClip]_vars

(***************************************************************************)
(* C4: for every integer position, _blend_layer and                        *)
(* add_reflection_to_composite change only the canvas pixels under the     *)
(* positioned layer, each to the blend of the canvas pixel with the layer  *)
(* and mask pixel lying over it (the source rectangle has the size of the  *)
(* destination rectangle and lies inside the layer: no wraparound); every  *)
(* other pixel is unchanged, and with an empty intersection the canvas is  *)
(* unchanged and nothing is raised.                                        *)
(***************************************************************************)
Clipping == pc = "returned" /\ args.fn \in {"_blend_layer", "add_reflection_to_composite"}

UnderLayer(p) ==
    /\ p[1] - args.y \in 0 .. (args.layer.h - 1)
    /\ p[2] - args.x \in 0 .. (args.layer.w - 1)

ExpectedBlend(p) ==
    LET b == args.base.d[p]
        l == At(args.layer, p[1] - args.y, p[2] - args.x)
        m == At(args.mask, p[1] - args.y, p[2] - args.x)
        a == MaxPixel - m
    IN  IF args.fn = "_blend_layer"
        THEN <<RoundDiv(b[1] * a + l[3] * FloatScale * m, MaxPixel),
               RoundDiv(b[2] * a + l[2] * FloatScale * m, MaxPixel),
               RoundDiv(b[3] * a + l[1] * FloatScale * m, MaxPixel)>>
        ELSE <<RoundDiv((b[1] * a + l[1] * m) * FloatScale, MaxPixel) \div FloatScale,
               RoundDiv((b[2] * a + l[2] * m) * FloatScale, MaxPixel) \div FloatScale,
               RoundDiv((b[3] * a + l[3] * m) * FloatScale, MaxPixel) \div FloatScale>>

SourceInsideLayer ==
    IF args.fn = "_blend_layer"
    THEN LET r == blend_layer_regions(args.base.h, args.base.w, args.layer.h,
                                      args.layer.w, args.x, args.y)
         IN  blend_layer_empty(r) \/
               (/\ 0 <= r.lx1 /\ r.lx2 <= args.layer.w /\ r.lx2 - r.lx1 = r.x2 - r.x1
                /\ 0 <= r.ly1 /\ r.ly2 <= args.layer.h /\ r.ly2 - r.ly1 = r.y2 - r.y1
                /\ r.lx1 = r.x1 - args.x /\ r.ly1 = r.y1 - args.y)
    ELSE LET r == add_reflection_regions(args.base.h, args.base.w, args.layer.h,
                                         args.layer.w, args.x, args.y)
         IN  (r.y2 <= r.y1 \/ r.x2 <= r.x1) \/
               (/\ 0 <= r.rx1 /\ r.rx2 <= args.layer.w /\ r.rx2 - r.rx1 = r.x2 - r.x1
                /\ 0 <= r.ry1 /\ r.ry2 <= args.layer.h /\ r.ry2 - r.ry1 = r.y2 - r.y1
                /\ r.rx1 = r.x1 - args.x /\ r.ry1 = r.y1 - args.y)

C4_ClippedBlend ==
    Clipping =>
        /\ ~IsErr(ret)
        /\ ret.h = args.base.h /\ ret.w = args.base.w
        /\ SourceInsideLayer
        /\ \A p \in Pixels(args.base):
              ret.d[p] = IF UnderLayer(p) THEN ExpectedBlend(p) ELSE args.base.d[p]

\* a layer hanging over the top-left corner whose visible part changes the canvas
C4_Witness ==
    /\ Clipping
    /\ args.x < 0 /\ args.y < 0
    /\ \E p \in Pixels(args.base): UnderLayer(p) /\ ret.d[p] # args.base.d[p]
    /\ \E p \in Pixels(args.base): ~UnderLayer(p)

(***************************************************************************)
(* cv2.GaussianBlur(img, (k, k), 0) on 8-bit data: separable kernel in     *)
(* fixed point, BORDER_REFLECT_101, one rounding at the end.  A kernel is  *)
(* given by its centre weight followed by the weights to one side; for     *)
(* k = 3 and k = 5 these are the library's fixed tables, for larger k the  *)
(* Gaussian of sigma = 0.3 * ((k - 1) / 2 - 1) + 0.8 in units of 1/256     *)
(* (weights that round to 0 left out).                                     *)
(***************************************************************************)
GaussHalf(k) ==
    CASE k = 3 -> <<2, 1>>
      [] k = 5 -> <<6, 4, 1>>
      [] k = 11 -> <<
        51, 45, 31, 17, 7, 2>>
      [] k = 21 -> <<
        29, 28, 25, 20, 15, 11, 7, 4, 2, 1>>
      [] k = 71 -> <<
        9, 9, 9, 9, 9, 8, 8, 8, 7, 7, 6, 6, 5, 5, 4, 4, 3, 3, 2, 2, 2, 2, 1, 1, 1, 1, 1>>
      [] k = 161 -> <<
        4, 4, 4, 4, 4, 4, 4, 4, 4, 4, 4, 4, 4, 4, 4, 3, 3, 3, 3, 3, 3, 3, 3, 3, 3, 2,
        2, 2, 2, 2, 2, 2, 2, 2, 2, 2, 1, 1, 1, 1, 1, 1, 1, 1, 1, 1, 1, 1, 1, 1, 1>>

\* borderInterpolate(p, len, BORDER_REFLECT_101)
Reflect101(p, len) ==
    IF len = 1 THEN 0
    ELSE LET m == p % (2 * (len - 1))
         IN  IF m < len THEN m ELSE 2 * (len - 1) - m

\* the sum of the weights of the offsets lo..hi that borderInterpolate sends from
\* destination index i to source index j on an axis of length n
RECURSIVE FoldedRange(_, _, _, _, _, _)
FoldedRange(half, i, j, n, lo, hi) ==
    IF lo > hi THEN 0
    ELSE IF lo = hi
    THEN (IF Reflect101(i + lo, n) = j THEN half[Abs(lo) + 1] ELSE 0)
    ELSE LET mid == (lo + hi) \div 2
         IN  FoldedRange(half, i, j, n, lo, mid) + FoldedRange(half, i, j, n, mid + 1, hi)

\* the weight with which source index j enters destination index i
FoldedWeight(half, i, j, n) == FoldedRange(half, i, j, n, 1 - Len(half), Len(half) - 1)

KernelSum(half) ==
    LET S[o \in 0 .. Len(half)] ==
            IF o = 0 THEN 0 ELSE S[o - 1] + (IF o = 1 THEN 1 ELSE 2) * half[o]
    IN  S[Len(half)]

\* sum over the pixels of a of wy[r] * wx[c] * a[r, c]
WeightedSum(a, wy, wx) ==
    LET RowSum[rc \in (0 .. (a.h - 1)) \X (-1 .. (a.w - 1))] ==
            IF rc[2] = -1 THEN 0
            ELSE RowSum[<<rc[1], rc[2] - 1>>] + wx[rc[2]] * At(a, rc[1], rc[2])
        Total[r \in -1 .. (a.h - 1)] ==
            IF r = -1 THEN 0 ELSE Total[r - 1] + wy[r] * RowSum[<<r, a.w - 1>>]
    IN  Total[a.h - 1]

GaussianBlur(a, k) ==
    IF Size(a) = 0 THEN ErrVal
    ELSE LET half == GaussHalf(k)
             ks == KernelSum(half)
             wrow == [i \in 0 .. (a.h - 1) |-> [j \in 0 .. (a.h - 1) |->
                         FoldedWeight(half, i, j, a.h)]]
             wcol == [i \in 0 .. (a.w - 1) |-> [j \in 0 .. (a.w - 1) |->
                         FoldedWeight(half, i, j, a.w)]]
         IN  Arr(a.h, a.w, LAMBDA y, x:
                 RoundDiv(WeightedSum(a, wrow[y], wcol[x]), ks * ks))

GaussianBlur3(a, k) ==
    IF Size(a) = 0 THEN ErrVal
    ELSE Merge(GaussianBlur(Channel(a, 1), k), GaussianBlur(Channel(a, 2), k),
               GaussianBlur(Channel(a, 3), k))

(***************************************************************************)
(* ShadowGenerator (shadows.py).                                           *)
(***************************************************************************)
\* SHADOW_CONFIG, lines 32-60: opacity in 1/100, scale_y in 1/1000, scale_x in 1/100
ContactConfig == [blur_radius |-> 5, opacity |-> 45, offset_y |-> 0, scale_y |-> 15,
                  scale_x |-> 95, gradient |-> FALSE]
AmbientConfig == [blur_radius |-> 35, opacity |-> 25, offset_y |-> 5, scale_y |-> 120,
                  scale_x |-> 110, gradient |-> TRUE]
DropConfig == [blur_radius |-> 80, opacity |-> 15, offset_y |-> 15, scale_y |-> 200,
               scale_x |-> 130, gradient |-> TRUE]

\* self.SHADOW_CONFIG.get(shadow_type, self.SHADOW_CONFIG['ambient']), lines 80-83
SHADOW_CONFIG(shadow_type) ==
    CASE shadow_type = "contact" -> ContactConfig
      [] shadow_type = "drop" -> DropConfig
      [] OTHER -> AmbientConfig

\* the integer part of the square root of n <= 10000
ISqrt(n) == CHOOSE r \in 0 .. 100: r * r <= n /\ n < (r + 1) * (r + 1)

\* _apply_shadow_gradient, lines 155-175: dist ** 1.5 in 1/100, truncated product
apply_shadow_gradient(shadow) ==
    Arr(shadow.h, shadow.w, LAMBDA y, x:
        LET a == Abs(2 * x - shadow.w)
            d15 == ISqrt((10000 * a * a * a) \div (shadow.w * shadow.w * shadow.w))
        IN  (At(shadow, y, x) * (200 - d15) * (10 * shadow.h - 7 * y))
                \div (200 * 10 * shadow.h))

\* np.where(mask > 0)
Coords(mask) == {p \in Pixels(mask): mask.d[p] > 0}

SetMin(S) == CHOOSE m \in S: \A n \in S: m <= n
SetMax(S) == CHOOSE m \in S: \A n \in S: m >= n

\* lines 92-99: the bounding box and the shadow's dimensions
shadow_geometry(mask, config) ==
    LET ys == {p[1] : p \in Coords(mask)}
        xs == {p[2] : p \in Coords(mask)}
        car_height == SetMax(ys) - SetMin(ys)
        car_width == SetMax(xs) - SetMin(xs)
    IN  [y_min |-> SetMin(ys), y_max |-> SetMax(ys),
         x_min |-> SetMin(xs), x_max |-> SetMax(xs),
         car_height |-> car_height, car_width |-> car_width,
         shadow_height |-> TruncDiv(car_height * config.scale_y, 1000),
         shadow_width |-> TruncDiv(car_width * config.scale_x, 100)]

\* lines 101-124: the shadow patch before it is placed, or ErrVal when a call raises
shadow_patch(mask, config) ==
    LET g == shadow_geometry(mask, config)
        strip0 == Crop(mask, g.y_max - g.shadow_height, g.y_max, g.x_min, g.x_max)
        bottom_strip == IF Size(strip0) = 0
                        THEN Crop(mask, Max(0, g.y_max - 20), g.y_max, g.x_min, g.x_max)
                        ELSE strip0
        sized == IF g.shadow_height > 0 /\ g.shadow_width > 0
                 THEN ResizeLinear(bottom_strip, g.shadow_width, g.shadow_height)
                 ELSE Zeros(Max(1, g.shadow_height), Max(1, g.shadow_width))
        flat == IF IsErr(sized) THEN ErrVal
                ELSE IF config.scale_y < 1000
                THEN ResizeLinear(sized, g.shadow_width, Max(1, g.shadow_height))
                ELSE sized
        graded == IF IsErr(flat) THEN ErrVal
                  ELSE IF config.gradient THEN apply_shadow_gradient(flat) ELSE flat
    IN  IF IsErr(graded) THEN ErrVal
        ELSE IF config.blur_radius > 0
        THEN GaussianBlur(graded, config.blur_radius * 2 + 1)
        ELSE graded

\* place_shadow with the patch one row further down
place_shadow_below_box(mask, config, shadow) ==
    LET g == shadow_geometry(mask, config)
        shadow_y == g.y_max + config.offset_y + 1
        shadow_x == g.x_min + ((g.car_width - g.shadow_width) \div 2)
        sy1 == Max(0, shadow_y)
        sy2 == Min(mask.h, shadow_y + shadow.h)
        sx1 == Max(0, shadow_x)
        sx2 == Min(mask.w, shadow_x + shadow.w)
        oy1 == Max(0, -shadow_y)
        oy2 == oy1 + (sy2 - sy1)
        ox1 == Max(0, -shadow_x)
        ox2 == ox1 + (sx2 - sx1)
        copied == sy2 > sy1 /\ sx2 > sx1 /\ oy2 <= shadow.h /\ ox2 <= shadow.w
    IN  Arr(mask.h, mask.w, LAMBDA y, x:
            IF copied /\ y >= sy1 /\ y < sy2 /\ x >= sx1 /\ x < sx2
            THEN (At(shadow, oy1 + (y - sy1), ox1 + (x - sx1)) * config.opacity) \div 100
            ELSE 0)

\* lines 126-153: the patch placed on the full-size canvas and scaled by the opacity
place_shadow(mask, config, shadow) ==
    LET g == shadow_geometry(mask, config)
        shadow_y == g.y_max + config.offset_y
        shadow_x == g.x_min + ((g.car_width - g.shadow_width) \div 2)
        sy1 == Max(0, shadow_y)
        sy2 == Min(mask.h, shadow_y + shadow.h)
        sx1 == Max(0, shadow_x)
        sx2 == Min(mask.w, shadow_x + shadow.w)
        oy1 == Max(0, -shadow_y)
        oy2 == oy1 + (sy2 - sy1)
        ox1 == Max(0, -shadow_x)
        ox2 == ox1 + (sx2 - sx1)
        copied == sy2 > sy1 /\ sx2 > sx1 /\ oy2 <= shadow.h /\ ox2 <= shadow.w
    IN  Arr(mask.h, mask.w, LAMBDA y, x:
            IF copied /\ y >= sy1 /\ y < sy2 /\ x >= sx1 /\ x < sx2
            THEN (At(shadow, oy1 + (y - sy1), ox1 + (x - sx1)) * config.opacity) \div 100
            ELSE 0)

\* create_shadow_layer without the early return of lines 88-90
create_shadow_layer_unguarded(mask, shadow_type) ==
    LET config == SHADOW_CONFIG(shadow_type)
    IN  IF Coords(mask) = {} THEN ErrVal   \* y_coords.min() of no coordinates raises
        ELSE LET shadow == shadow_patch(mask, config)
             IN  IF IsErr(shadow) THEN ErrVal ELSE place_shadow(mask, config, shadow)

\* create_shadow_layer, lines 65-153, with custom_config = None
create_shadow_layer(mask, shadow_type) ==
    LET config == SHADOW_CONFIG(shadow_type)
    IN  IF Coords(mask) = {} THEN Zeros(mask.h, mask.w)
        ELSE LET shadow == shadow_patch(mask, config)
             IN  IF IsErr(shadow) THEN ErrVal ELSE place_shadow(mask, config, shadow)

\* create_all_shadows, lines 177-191
create_all_shadows(mask) ==
    [t \in {"contact", "ambient", "drop"} |-> create_shadow_layer(mask, t)]

(***************************************************************************)
(* Calls of the shadow generator on masks of ShadowH rows and ShadowW      *)
(* columns: the empty mask, every solid rectangle, and every pair of       *)
(* opposite corners of a rectangle, with a full and with a faint value.    *)
(***************************************************************************)
Rects == {r \in (0 .. (ShadowH - 1)) \X (0 .. (ShadowH - 1))
                  \X (0 .. (ShadowW - 1)) \X (0 .. (ShadowW - 1)):
            r[1] <= r[2] /\ r[3] <= r[4]}

RectMask(r, solid, v) ==
    Arr(ShadowH, ShadowW, LAMBDA y, x:
        IF solid
        THEN (IF y >= r[1] /\ y <= r[2] /\ x >= r[3] /\ x <= r[4] THEN v ELSE 0)
        ELSE (IF (y = r[1] /\ x = r[3]) \/ (y = r[2] /\ x = r[4]) THEN v ELSE 0))

ShadowMasks ==
    {Zeros(h, w) : h \in 0 .. ShadowH, w \in 0 .. ShadowW}
      \cup {RectMask(r, solid, v) : r \in Rects, solid \in BOOLEAN, v \in {MaxPixel, 9}}

call_create_shadow_layer ==
    /\ pc = "idle"
    /\ \E mask \in ShadowMasks, shadow_type \in {"contact", "ambient", "drop", "soft"}:
          /\ args' = [fn |-> "create_shadow_layer", mask |-> mask,
                      shadow_type |-> shadow_type]
          /\ ret' = create_shadow_layer(mask, shadow_type)
    /\ pc' = "returned"
    /\ UNCHANGED compositeVars

call_create_all_shadows ==
    /\ pc = "idle"
    /\ \E mask \in ShadowMasks:
          /\ args' = [fn |-> "create_all_shadows", mask |-> mask]
          /\ ret' = create_all_shadows(mask)
    /\ pc' = "returned"
    /\ UNCHANGED compositeVars

NextShadow ==
    \/ call_create_shadow_layer
    \/ call_create_all_shadows

SpecShadow == Init /\ [][NextShadow]_vars

(***************************************************************************)
(* C5: on a mask with no pixel above 0, create_shadow_layer returns for    *)
(* each shadow type, and create_all_shadows for all three, a layer of the  *)
(* mask's height and width that is 0 everywhere, and does not raise.       *)
(***************************************************************************)
ZeroLayerOf(layer, mask) ==
    /\ IsArray(layer)
    /\ layer.h = mask.h /\ layer.w = mask.w
    /\ \A p \in Pixels(layer): layer.d[p] = 0

EmptyMask(mask) == \A p \in Pixels(mask): mask.d[p] <= 0

C5_EmptyMaskZeroLayer ==
    /\ (pc = "returned" /\ args.fn = "create_shadow_layer" /\ EmptyMask(args.mask))
          => ZeroLayerOf(ret, args.mask)
    /\ (pc = "returned" /\ args.fn = "create_all_shadows" /\ EmptyMask(args.mask))
          => \A t \in {"contact", "ambient", "drop"}: ZeroLayerOf(ret[t], args.mask)

C5_Witness ==
    /\ pc = "returned"
    /\ args.fn = "create_all_shadows"
    /\ EmptyMask(args.mask)
    /\ args.mask.h = ShadowH /\ args.mask.w = ShadowW

(***************************************************************************)
(* C6: on every non-empty mask, a degenerate bounding box included,        *)
(* create_shadow_layer returns a layer of the mask's height and width for  *)
(* each built-in shadow type and does not raise.                           *)
(***************************************************************************)
C6_DegenerateBoxGraceful ==
    (pc = "returned" /\ args.fn = "create_shadow_layer" /\ ~EmptyMask(args.mask)
        /\ args.shadow_type \in {"contact", "ambient", "drop"})
      => (IsArray(ret) /\ ret.h = args.mask.h /\ ret.w = args.mask.w)

(***************************************************************************)
(* cv2.cvtColor on 8-bit pixels: BGR -> HSV with the library's division    *)
(* tables (12 fractional bits, H in 0..179), HSV -> BGR by the sector      *)
(* formula, rounded.                                                       *)
(***************************************************************************)
Max3(p) == Max(p[1], Max(p[2], p[3]))
Min3(p) == Min(p[1], Min(p[2], p[3]))

sdiv_table(v) == IF v = 0 THEN 0 ELSE RoundDiv(1044480, v)
hdiv_table(d) == IF d = 0 THEN 0 ELSE RoundDiv(122880, d)

BGR2HSV(p) ==
    LET b == p[1]
        g == p[2]
        r == p[3]
        v == Max3(p)
        diff == v - Min3(p)
        sat == (diff * sdiv_table(v) + 2048) \div 4096
        h0 == IF v = r THEN g - b
              ELSE IF v = g THEN b - r + 2 * diff
              ELSE r - g + 4 * diff
        h1 == (h0 * hdiv_table(diff) + 2048) \div 4096
    IN  <<IF h1 < 0 THEN h1 + 180 ELSE h1, sat, v>>

HSV2BGR(q) ==
    LET hue == q[1]
        sat == q[2]
        v == q[3]
        sector == (hue \div 30) % 6
        f == hue % 30
        tab == <<v,
                 RoundDiv(v * (255 - sat), 255),
                 RoundDiv(v * (7650 - sat * f), 7650),
                 RoundDiv(v * (7650 - sat * (30 - f)), 7650)>>
        sector_data == <<<<1, 3, 0>>, <<1, 0, 2>>, <<3, 0, 1>>,
                         <<0, 2, 1>>, <<0, 1, 3>>, <<2, 1, 0>>>>
        sd == sector_data[sector + 1]
    IN  IF sat = 0 THEN <<v, v, v>>
        ELSE <<tab[sd[1] + 1], tab[sd[2] + 1], tab[sd[3] + 1]>>

(***************************************************************************)
(* ReflectionGenerator (reflection.py).  opacity, fade_height and amount   *)
(* are in 1/100.                                                           *)
(***************************************************************************)
\* _desaturate, lines 94-99
desaturate(image, amount) ==
    Arr(image.h, image.w, LAMBDA y, x:
        LET hsv == BGR2HSV(At(image, y, x))
        IN  HSV2BGR(<<Min(hsv[1], 255), Min((hsv[2] * (100 - amount)) \div 100, 255),
                      Min(hsv[3], 255)>>))

\* cv2.warpAffine with M = [[1, 0, 0], [0, 1, gap]]: the rows move down by gap
ShiftDown(a, gap, zero) ==
    Arr(a.h, a.w, LAMBDA y, x: IF y - gap >= 0 THEN At(a, y - gap, x) ELSE zero)

\* the gradient alone, not multiplied by the mask
faded_mask_gradient_only(flipped_mask, h, w, opacity, fade_height) ==
    LET fade_end == TruncDiv(h * fade_height, 100)
    IN  Arr(h, w, LAMBDA y, x:
            IF y < fade_end
            THEN (MaxPixel * (fade_end * fade_end - y * y) * opacity)
                   \div (fade_end * fade_end * 100)
            ELSE 0)

\* lines 59-72: the faded mask before the blur
faded_mask(flipped_mask, h, w, opacity, fade_height) ==
    LET fade_end == TruncDiv(h * fade_height, 100)
    IN  IF flipped_mask.h # h \/ flipped_mask.w # w
        THEN (IF Compatible(flipped_mask.h, h) /\ Compatible(flipped_mask.w, w)
              THEN Arr(Broadcast(flipped_mask.h, h), Broadcast(flipped_mask.w, w),
                       LAMBDA y, x:
                         IF y < fade_end
                         THEN (At(flipped_mask, BIdx(y, flipped_mask.h),
                                  BIdx(x, flipped_mask.w))
                                 * (fade_end * fade_end - y * y) * opacity)
                                \div (fade_end * fade_end * 100)
                         ELSE 0)
              ELSE ErrVal)
        ELSE Arr(h, w, LAMBDA y, x:
                 IF y < fade_end
                 THEN (At(flipped_mask, y, x) * (fade_end * fade_end - y * y) * opacity)
                        \div (fade_end * fade_end * 100)
                 ELSE 0)

\* create_reflection, lines 32-88: <<reflection, reflection_mask>>, or ErrVal twice
\* when a call raises
create_reflection(image, mask, opacity, fade_height, blur, gap) ==
    LET h == image.h
        w == image.w
        flipped == FlipV(image)
        faded == faded_mask(FlipV(mask), h, w, opacity, fade_height)
        blurred == IF blur > 0 THEN GaussianBlur3(flipped, blur * 2 + 1) ELSE flipped
        blurred_mask == IF IsErr(faded) THEN ErrVal
                        ELSE IF blur > 0 THEN GaussianBlur(faded, blur * 2 + 1)
                        ELSE faded
    IN  IF IsErr(blurred) \/ IsErr(blurred_mask) THEN <<ErrVal, ErrVal>>
        ELSE LET soft == desaturate(blurred, 20)
             IN  IF gap > 0
                 THEN <<ShiftDown(soft, gap, <<0, 0, 0>>), ShiftDown(blurred_mask, gap, 0)>>
                 ELSE <<soft, blurred_mask>>

\* t ** 0.8 for t = y / n, in 1/20
Pow08(y, n) ==
    CHOOSE r \in 0 .. 20:
        /\ r * r * r * r * r * n * n * n * n <= 3200000 * y * y * y * y
        /\ (r = 20 \/ (r + 1) * (r + 1) * (r + 1) * (r + 1) * (r + 1) * n * n * n * n
                         > 3200000 * y * y * y * y)

\* create_reflection_extended, lines 101-165: <<reflection, mask, y_position>>
create_reflection_extended(image, mask, car_y_position, opacity, max_reflection_height) ==
    LET car_h == image.h
        car_w == image.w
        degenerate == <<Arr(car_h, car_w, LAMBDA y, x: <<0, 0, 0>>), Zeros(car_h, car_w), 0>>
    IN  IF Coords(mask) = {} THEN degenerate
        ELSE
          LET rows == {p[1] : p \in Coords(mask)}
              y_max == SetMax(rows)
              actual_height == y_max - SetMin(rows)
              reflection_height == TruncDiv(actual_height * max_reflection_height, 100)
              bottom_portion == Crop(image, y_max - reflection_height, y_max, 0, car_w)
              bottom_mask == Crop(mask, y_max - reflection_height, y_max, 0, mask.w)
          IN  IF Size(bottom_portion) = 0 THEN degenerate
              ELSE
                LET flipped == FlipV(bottom_portion)
                    flipped_mask == FlipV(bottom_mask)
                    ref_h == flipped.h
                    okShape == Compatible(flipped_mask.h, ref_h)
                                 /\ Compatible(flipped_mask.w, car_w)
                    faded == Arr(Broadcast(flipped_mask.h, ref_h),
                                 Broadcast(flipped_mask.w, car_w), LAMBDA y, x:
                                 (At(flipped_mask, BIdx(y, flipped_mask.h),
                                     BIdx(x, flipped_mask.w))
                                    * (20 - Pow08(y, ref_h)) * opacity) \div 2000)
                IN  IF ~okShape THEN <<ErrVal, ErrVal, 0>>
                    ELSE <<desaturate(GaussianBlur3(flipped, 3), 25), faded,
                           car_y_position + car_h>>

(***************************************************************************)
(* Calls of the reflection generator on subjects of up to ReflH rows and   *)
(* ReflW columns.                                                          *)
(***************************************************************************)
ReflSizes == (1 .. ReflH) \X (1 .. ReflW)
Opacities == {0, 18, 20, 100}
FadeHeights == {0, 25, 50, 100}

\* a subject that is black, or coloured
Subject(kind, h, w) ==
    IF kind = "black" THEN Arr(h, w, LAMBDA y, x: <<0, 0, 0>>) ELSE Car(h, w)

\* a mask that is empty, fully opaque, or opaque on its lower rows only
SubjectMask(kind, h, w) ==
    CASE kind = "zero" -> Zeros(h, w)
      [] kind = "full" -> Arr(h, w, LAMBDA y, x: MaxPixel)
      [] OTHER -> Arr(h, w, LAMBDA y, x: IF 2 * y >= h - 1 THEN 200 ELSE 0)

call_create_reflection ==
    /\ pc = "idle"
    /\ \E sz \in ReflSizes, ik \in {"black", "colour"}, mk \in {"zero", "full", "lower"},
          opacity \in Opacities, fade_height \in FadeHeights, blur \in {0, 2},
          gap \in {0, 1}:
          LET image == Subject(ik, sz[1], sz[2])
              mask == SubjectMask(mk, sz[1], sz[2])
          IN  /\ args' = [fn |-> "create_reflection", image |-> image, mask |-> mask,
                          mask_kind |-> mk, opacity |-> opacity,
                          fade_height |-> fade_height, blur |-> blur, gap |-> gap]
              /\ ret' = create_reflection(image, mask, opacity, fade_height, blur, gap)
    /\ pc' = "returned"
    /\ UNCHANGED compositeVars

call_create_reflection_extended ==
    /\ pc = "idle"
    /\ \E sz \in ReflSizes, ik \in {"black", "colour"}, mk \in {"zero", "full", "lower"},
          opacity \in Opacities, car_y_position \in {0, 3}:
          LET image == Subject(ik, sz[1], sz[2])
              mask == SubjectMask(mk, sz[1], sz[2])
          IN  /\ args' = [fn |-> "create_reflection_extended", image |-> image,
                          mask |-> mask, mask_kind |-> mk, opacity |-> opacity,
                          car_y_position |-> car_y_position]
              /\ ret' = create_reflection_extended(image, mask, car_y_position, opacity, 40)
    /\ pc' = "returned"
    /\ UNCHANGED compositeVars

NextReflect ==
    \/ call_create_reflection
    \/ call_create_reflection_extended

SpecReflect == Init /\ [][NextReflect]_vars

(***************************************************************************)
(* C7: for a subject whose mask is all zeros, create_reflection and        *)
(* create_reflection_extended return, without raising, a reflection image  *)
(* whose every pixel is 0 and a reflection mask whose every value is 0,    *)
(* whatever the subject image holds.                                       *)
(***************************************************************************)
Reflecting == pc = "returned" /\ args.fn \in {"create_reflection", "create_reflection_extended"}

C7_EmptyMaskZeroReflection ==
    (Reflecting /\ EmptyMask(args.mask)) =>
        /\ IsArray(ret[1]) /\ IsArray(ret[2])
        /\ \A p \in Pixels(ret[1]): ret[1].d[p] = <<0, 0, 0>>
        /\ \A p \in Pixels(ret[2]): ret[2].d[p] = 0

(***************************************************************************)
(* C8: for a fully opaque mask, the reflection mask of create_reflection   *)
(* (default blur 2, no gap) is non-increasing down every column from row 0 *)
(* and is 0 at every row r >= int(height * fade_height), for every opacity *)
(* and fade_height in [0, 1].                                              *)
(***************************************************************************)
OpaqueReflection ==
    /\ pc = "returned"
    /\ args.fn = "create_reflection"
    /\ args.mask_kind = "full"
    /\ args.blur = 2
    /\ args.gap = 0

NonIncreasingColumns(m) ==
    \A p \in Pixels(m): p[1] + 1 < m.h => m.d[<<p[1] + 1, p[2]>>] <= m.d[p]

C8_ReflectionFade ==
    OpaqueReflection =>
        /\ IsArray(ret[2])
        /\ NonIncreasingColumns(ret[2])
        /\ \A p \in Pixels(ret[2]):
              p[1] >= TruncDiv(args.image.h * args.fade_height, 100) => ret[2].d[p] = 0

(***************************************************************************)
(* cv2.resize, INTER_AREA, shrinking: each destination pixel is the mean   *)
(* of the source area it covers, rounded.                                  *)
(***************************************************************************)
\* the length shared by destination cell i and source cell k, in units of 1/(sn * dn)
Overlap(i, k, sn, dn) ==
    Max(0, Min((i + 1) * sn, (k + 1) * dn) - Max(i * sn, k * dn))

AreaSum(a, y, x, dw, dh) ==
    WeightedSum(a, [k \in 0 .. (a.h - 1) |-> Overlap(y, k, a.h, dh)],
                   [l \in 0 .. (a.w - 1) |-> Overlap(x, l, a.w, dw)])

ResizeArea(a, dw, dh) ==
    IF dw <= 0 \/ dh <= 0 \/ ~IsArray(a) \/ Size(a) = 0 THEN ErrVal
    ELSE IF dw = a.w /\ dh = a.h THEN a
    ELSE Arr(dh, dw, LAMBDA y, x: RoundDiv(AreaSum(a, y, x, dw, dh), a.w * a.h))

ResizeArea3(a, dw, dh) ==
    IF dw <= 0 \/ dh <= 0 \/ ~IsArray(a) \/ Size(a) = 0 THEN ErrVal
    ELSE Merge(ResizeArea(Channel(a, 1), dw, dh), ResizeArea(Channel(a, 2), dw, dh),
               ResizeArea(Channel(a, 3), dw, dh))

(***************************************************************************)
(* Compositor.scale_car_to_fit (composite.py 216-252).  The ratios are in  *)
(* 1/100; scale is the rational min(max_w / car_w, max_h / car_h).         *)
(***************************************************************************)
\* the new size applied whenever the factor is not 1
scale_dims_any_factor(car_w, car_h, target_width, target_height, max_width_ratio, max_height_ratio) ==
    LET max_w == TruncDiv(target_width * max_width_ratio, 100)
        max_h == TruncDiv(target_height * max_height_ratio, 100)
        by_width == max_w * car_h <= max_h * car_w
        num == IF by_width THEN max_w ELSE max_h
        den == IF by_width THEN car_w ELSE car_h
    IN  [max_w |-> max_w, max_h |-> max_h,
         shrink |-> num # den,
         new_w |-> TruncDiv(car_w * num, den),
         new_h |-> TruncDiv(car_h * num, den)]

\* lines 237-247: the limits and the new size
scale_dims(car_w, car_h, target_width, target_height, max_width_ratio, max_height_ratio) ==
    LET max_w == TruncDiv(target_width * max_width_ratio, 100)
        max_h == TruncDiv(target_height * max_height_ratio, 100)
        by_width == max_w * car_h <= max_h * car_w
        num == IF by_width THEN max_w ELSE max_h
        den == IF by_width THEN car_w ELSE car_h
    IN  [max_w |-> max_w, max_h |-> max_h,
         shrink |-> num < den,
         new_w |-> TruncDiv(car_w * num, den),
         new_h |-> TruncDiv(car_h * num, den)]

\* <<car_image, car_mask>> as returned, or ErrVal twice when cv2.resize raises
scale_car_to_fit(image, mask, target_width, target_height, max_width_ratio, max_height_ratio) ==
    LET s == scale_dims(image.w, image.h, target_width, target_height,
                        max_width_ratio, max_height_ratio)
    IN  IF s.shrink
        THEN LET scaled == ResizeArea3(image, s.new_w, s.new_h)
                 scaled_mask == ResizeArea(mask, s.new_w, s.new_h)
             IN  IF IsErr(scaled) \/ IsErr(scaled_mask) THEN <<ErrVal, ErrVal>>
                 ELSE <<scaled, scaled_mask>>
        ELSE <<image, mask>>

(***************************************************************************)
(* Calls of scale_car_to_fit on subjects of up to MaxCar pixels a side and *)
(* canvases of up to MaxTarget pixels a side.                              *)
(***************************************************************************)
Ratios == {<<75, 50>>, <<100, 100>>, <<40, 25>>}

call_scale_car_to_fit ==
    /\ pc = "idle"
    /\ \E car_w \in 1 .. MaxCar, car_h \in 1 .. MaxCar,
          target_width \in 1 .. MaxTarget, target_height \in 1 .. MaxTarget,
          ratio \in Ratios:
          LET image == Car(car_h, car_w)
              mask == MaskOf("mixed", car_h, car_w)
          IN  /\ args' = [fn |-> "scale_car_to_fit", image |-> image, mask |-> mask,
                          target_width |-> target_width, target_height |-> target_height,
                          max_width_ratio |-> ratio[1], max_height_ratio |-> ratio[2]]
              /\ ret' = scale_car_to_fit(image, mask, target_width, target_height,
                                         ratio[1], ratio[2])
    /\ pc' = "returned"
    /\ UNCHANGED compositeVars

NextScale == call_scale_car_to_fit

SpecScale == Init /\ [][NextScale]_vars

(***************************************************************************)
(* C9: scale_car_to_fit never enlarges: a subject no wider than            *)
(* int(target_width * max_width_ratio) and no taller than                  *)
(* int(target_height * max_height_ratio) comes back unchanged, image and   *)
(* mask; in every other case what is returned is no larger than the input  *)
(* in either dimension.                                                    *)
(***************************************************************************)
Scaled == pc = "returned" /\ args.fn = "scale_car_to_fit"

LimitW == (args.target_width * args.max_width_ratio) \div 100
LimitH == (args.target_height * args.max_height_ratio) \div 100
Fits == args.image.w <= LimitW /\ args.image.h <= LimitH

C9_NeverEnlarges ==
    Scaled =>
        /\ Fits => (ret[1] = args.image /\ ret[2] = args.mask)
        /\ (~Fits /\ IsArray(ret[1])) =>
              /\ ret[1].w <= args.image.w /\ ret[1].h <= args.image.h
              /\ ret[2].w <= args.mask.w /\ ret[2].h <= args.mask.h

C9_Witness ==
    /\ Scaled
    /\ Fits
    /\ args.image.w = LimitW
    /\ args.image.h < LimitH

C9_WitnessShrunk ==
    /\ Scaled
    /\ ~Fits
    /\ IsArray(ret[1])
    /\ ret[1].w < args.image.w /\ ret[1].h < args.image.h

(***************************************************************************)
(* C10: for every subject of positive width and height, every positive     *)
(* canvas size and ratios in (0, 1], scale_car_to_fit returns an image and *)
(* a mask of the same dimensions (new_w, new_h), with                      *)
(* 1 <= new_w <= int(target_width * max_width_ratio) and                   *)
(* 1 <= new_h <= int(target_height * max_height_ratio).                    *)
(***************************************************************************)
C10_FitsWithinLimits ==
    Scaled =>
        /\ IsArray(ret[1]) /\ IsArray(ret[2])
        /\ ret[1].w = ret[2].w /\ ret[1].h = ret[2].h
        /\ 1 <= ret[1].w /\ ret[1].w <= LimitW
        /\ 1 <= ret[1].h /\ ret[1].h <= LimitH

(***************************************************************************)
(* Compositor.auto_position_car (composite.py 189-214), horizon_ratio in   *)
(* 1/100, and the full-canvas mask of process (process_image.py 276-291).  *)
(***************************************************************************)
\* a placement that hangs the subject below the horizon: its top edge, not
\* its bottom edge, is put on the horizon row
auto_position_car_top_on_horizon(bg_w, bg_h, car_w, car_h, horizon_ratio) ==
    <<(bg_w - car_w) \div 2,
      TruncDiv(bg_h * horizon_ratio, 100) + TruncDiv(car_h * 5, 100)>>

auto_position_car(bg_w, bg_h, car_w, car_h, horizon_ratio) ==
    <<(bg_w - car_w) \div 2,
      TruncDiv(bg_h * horizon_ratio, 100) - car_h + TruncDiv(car_h * 5, 100)>>

full_mask(out_w, out_h, mask, x, y) ==
    LET car_h == mask.h
        car_w == mask.w
        y1 == Max(0, y)
        y2 == Min(out_h, y + car_h)
        x1 == Max(0, x)
        x2 == Min(out_w, x + car_w)
        cy1 == Max(0, -y)
        cx1 == Max(0, -x)
    IN  Arr(out_h, out_w, LAMBDA r, c:
            IF y2 > y1 /\ x2 > x1 /\ r >= y1 /\ r < y2 /\ c >= x1 /\ c < x2
            THEN At(mask, cy1 + (r - y1), cx1 + (c - x1))
            ELSE 0)

(***************************************************************************)
(* composite_final on generated layers, as process assembles them          *)
(* (process_image.py 270-338): the shadows of create_all_shadows on the    *)
(* full-canvas mask, the reflection of create_reflection on the subject,   *)
(* and the subject at the automatic or at a given position.                *)
(***************************************************************************)
\* <<width, height>> of the subjects: the last one is wide enough for every shadow
GeneratedCarSizes == CarSizes \cup {<<CanvasW, 1>>}

call_composite_generated ==
    /\ pc = "idle"
    /\ \E k \in 1 .. 2, cs \in GeneratedCarSizes, mk \in MaskKinds, p \in Positions,
          opacity \in {18, 100}, blur \in {0, 2}:
          \E image \in {Car(cs[2], cs[1])}, mask \in {MaskOf(mk, cs[2], cs[1])},
             auto \in {auto_position_car(CanvasW, CanvasH, cs[1], cs[2], 65)}:
          \E canvas_mask \in {full_mask(CanvasW, CanvasH, mask, auto[1], auto[2])}:
          \E layers \in {create_all_shadows(canvas_mask)},
             refl \in {create_reflection(image, mask, opacity, 50, blur, 0)}:
          \E raised \in {(\E t \in DOMAIN layers: IsErr(layers[t])) \/ IsErr(refl[1])}:
              /\ args' = [fn |-> "composite_generated", mask_kind |-> mk,
                          opacity |-> opacity, blur |-> blur]
              /\ background' = Bg(k)
              /\ car_image' = image
              /\ car_mask' = mask
              /\ shadows' = IF raised THEN shadows ELSE layers
              /\ reflection' = IF raised THEN reflection ELSE refl[1]
              /\ reflection_mask' = IF raised THEN reflection_mask ELSE refl[2]
              /\ car_position' = IF p = <<>> THEN auto ELSE p
              /\ output_size' = <<>>
              /\ pc' = IF raised THEN "raised" ELSE "call"
    /\ ops' = <<>>
    /\ UNCHANGED <<result, xy, shadow_idx, final, ret>>

NextGenerated ==
    \/ call_composite_generated
    \/ composite_begin
    \/ composite_reflection
    \/ composite_shadow
    \/ composite_car
    \/ composite_return

SpecGenerated == Init /\ [][NextGenerated]_vars

(***************************************************************************)
(* C2: with an all-zero subject mask, the shadows of create_all_shadows on *)
(* the all-zero canvas mask and the reflection of create_reflection on     *)
(* that subject, composite_final returns the background it was given,      *)
(* pixel for pixel, whatever the subject image and the position.           *)
(***************************************************************************)
EmptySubject ==
    /\ pc \in {"done", "raised"}
    /\ args.fn = "composite_generated"
    /\ Pixels(car_mask) # {}
    /\ \A q \in Pixels(car_mask): At(car_mask, q[1], q[2]) = 0

C2_EmptySubjectLeavesBackground ==
    EmptySubject => (pc = "done" /\ final = background)

\* the reflection image is not blank, the subject lies on the canvas, and the
\* output is still the background
C2_Witness ==
    /\ EmptySubject
    /\ pc = "done"
    /\ final = background
    /\ \E q \in Pixels(reflection): At(reflection, q[1], q[2]) # <<0, 0, 0>>
    /\ xy = <<0, 0>>
    /\ ops = <<"reflection", "drop", "ambient", "contact", "car">>


(***************************************************************************)
(* Calls of auto_position_car.  The nudge int(car_h * 0.05) is 0 below 20  *)
(* rows and 1 from 20 rows on, so the subject heights straddle 20.         *)
(***************************************************************************)
PositionCarHeights == {1, 19, 20, 45}
PositionCanvasHeights == {MaxTarget, 100}
HorizonRatios == {0, 50, 65, 100}

call_auto_position_car ==
    /\ pc = "idle"
    /\ \E bg_w \in 1 .. MaxTarget, bg_h \in PositionCanvasHeights,
          car_w \in 1 .. MaxCar, car_h \in PositionCarHeights,
          horizon_ratio \in HorizonRatios:
          /\ args' = [fn |-> "auto_position_car", bg_w |-> bg_w, bg_h |-> bg_h,
                      car_w |-> car_w, car_h |-> car_h, horizon_ratio |-> horizon_ratio]
          /\ ret' = auto_position_car(bg_w, bg_h, car_w, car_h, horizon_ratio)
    /\ pc' = "returned"
    /\ UNCHANGED compositeVars

NextPosition == call_auto_position_car

SpecPosition == Init /\ [][NextPosition]_vars

(***************************************************************************)
(* C11: auto_position_car returns x = floor((bg_w - car_w) / 2) and a y    *)
(* for which the bottom edge y + car_h is at the horizon row               *)
(* int(bg_h * horizon_ratio) or above it, never below it.                  *)
(***************************************************************************)
Positioned == pc = "returned" /\ args.fn = "auto_position_car"

HorizonRow == (args.bg_h * args.horizon_ratio) \div 100

C11_BottomAtOrAboveHorizon ==
    Positioned =>
        /\ 2 * ret[1] <= args.bg_w - args.car_w
        /\ args.bg_w - args.car_w <= 2 * ret[1] + 1
        /\ ret[2] + args.car_h <= HorizonRow


(***************************************************************************)
(* BackgroundGenerator (background.py).  Colours are triples of integers,  *)
(* horizon_position is in 1/100 and floor_gradient in 1/20.                *)
(***************************************************************************)
BgMaxW == 2
BgMaxH == 4

PRESETS(preset) ==
    CASE preset = "studio_white" ->
           [top_color |-> <<250, 250, 250>>, horizon_color |-> <<240, 240, 240>>,
            floor_color |-> <<215, 215, 215>>, horizon_position |-> 65, floor_gradient |-> 6]
      [] preset = "studio_grey" ->
           [top_color |-> <<235, 235, 235>>, horizon_color |-> <<210, 210, 210>>,
            floor_color |-> <<175, 175, 175>>, horizon_position |-> 65, floor_gradient |-> 7]
      [] preset = "studio_dark" ->
           [top_color |-> <<90, 90, 90>>, horizon_color |-> <<60, 60, 60>>,
            floor_color |-> <<35, 35, 35>>, horizon_position |-> 65, floor_gradient |-> 8]
      [] preset = "showroom" ->
           [top_color |-> <<248, 248, 250>>, horizon_color |-> <<230, 230, 235>>,
            floor_color |-> <<195, 195, 200>>, horizon_position |-> 60, floor_gradient |-> 7]
      [] preset = "outdoor_neutral" ->
           [top_color |-> <<200, 210, 220>>, horizon_color |-> <<180, 185, 190>>,
            floor_color |-> <<160, 165, 170>>, horizon_position |-> 55, floor_gradient |-> 5]
      [] preset = "dealership" ->
           [top_color |-> <<245, 245, 247>>, horizon_color |-> <<225, 225, 230>>,
            floor_color |-> <<185, 185, 195>>, horizon_position |-> 62, floor_gradient |-> 8]
      [] OTHER ->
           [top_color |-> <<250, 250, 250>>, horizon_color |-> <<240, 240, 240>>,
            floor_color |-> <<215, 215, 215>>, horizon_position |-> 65, floor_gradient |-> 6]

\* int(base + diff * num / den) for den > 0: truncation toward zero of the sum
TruncAffine(base, diff, num, den) ==
    LET fl == base + ((diff * num) \div den)
    IN  IF fl < 0 /\ (diff * num) % den # 0 THEN fl + 1 ELSE fl

\* astype(np.uint8) of a float already truncated to the integer v.  Outside
\* 0..255 the conversion is undefined in C: the build either keeps the low
\* eight bits or saturates.
CastByte(v, cast) ==
    IF 0 <= v /\ v <= MaxPixel THEN v
    ELSE IF cast = "wrap" THEN v % 256
    ELSE IF v < 0 THEN 0 ELSE MaxPixel

\* line 111
horizon_row(height, config) == TruncDiv(height * config.horizon_position, 100)

\* the wall blended from the horizon colour toward the top colour
wall_value_from_horizon(config, horizon_y, y, c) ==
    TruncAffine(config.horizon_color[c], config.top_color[c] - config.horizon_color[c],
                y * y * (3 * horizon_y - 2 * y), horizon_y * horizon_y * horizon_y)

\* lines 119-122, channel c of row y < horizon_y: _ease_in_out(t) = t * t * (3 - 2 * t)
\* for t = y / horizon_y is y^2 * (3 * horizon_y - 2 * y) / horizon_y^3
wall_value(config, horizon_y, y, c) ==
    TruncAffine(config.top_color[c], config.horizon_color[c] - config.top_color[c],
                y * y * (3 * horizon_y - 2 * y), horizon_y * horizon_y * horizon_y)

\* lines 127-130, channel c of row y >= horizon_y: the eased argument is p / q
floor_value(config, height, horizon_y, y, c) ==
    LET a == y - horizon_y
        b == height - horizon_y
        p == a * config.floor_gradient + (20 - config.floor_gradient) * b
        q == 20 * b
    IN  TruncAffine(config.horizon_color[c], config.floor_color[c] - config.horizon_color[c],
                    p * p * (3 * q - 2 * p), q * q * q)

\* the value computed for channel c of row y, before it is stored
studio_value(config, height, y, c) ==
    LET horizon_y == horizon_row(height, config)
    IN  IF y < horizon_y THEN wall_value(config, horizon_y, y, c)
        ELSE floor_value(config, height, horizon_y, y, c)

\* the row indices given to background[y, :], in the order of the two loops
rows_written(height, config) ==
    LET horizon_y == horizon_row(height, config)
    IN  [i \in 1 .. Max(horizon_y, 0) |-> i - 1]
          \o [i \in 1 .. Max(height - horizon_y, 0) |-> horizon_y + i - 1]

\* create_studio_background, lines 81-133, on the configuration selected at lines
\* 99-102.  np.zeros raises on a negative dimension, background[y, :] raises on a
\* row outside -height .. height - 1; a row written through a negative index is
\* written again through its own index later in the second loop.
create_studio_background(width, height, config, cast) ==
    IF width < 0 \/ height < 0 THEN ErrVal
    ELSE IF \E i \in DOMAIN rows_written(height, config):
              rows_written(height, config)[i] >= height
                \/ rows_written(height, config)[i] < -height
    THEN ErrVal
    ELSE Arr(height, width, LAMBDA y, x:
             [c \in 1 .. 3 |-> CastByte(studio_value(config, height, y, c), cast)])

\* add_vignette, lines 139-171, radius 1.2, strength in 1/100: the squared
\* distance is N / D and the factor is 1 - min(N / (1.44 * D), 1) * strength;
\* vignette_value is the product before it is stored
vignette_value(image, strength, y, x, c) ==
    LET h == image.h
        w == image.w
        D == w * w * h * h
        N == (2 * x - w) * (2 * x - w) * h * h + (2 * y - h) * (2 * y - h) * w * w
        inside == 25 * N < 36 * D
        num == IF inside THEN 3600 * D - 25 * N * strength ELSE 100 - strength
        den == IF inside THEN 3600 * D ELSE 100
    IN  TruncAffine(0, At(image, y, x)[c], num, den)

add_vignette(image, strength, cast) ==
    Arr(image.h, image.w, LAMBDA y, x:
        [c \in 1 .. 3 |-> CastByte(vignette_value(image, strength, y, x, c), cast)])

(***************************************************************************)
(* Calls of the background generator: the presets, and custom              *)
(* configurations with colours outside 0..255, a floor_gradient of 2.0 and *)
(* horizon positions at and outside the ends of (0, 1).                    *)
(***************************************************************************)
PresetNames == {"studio_white", "studio_grey", "studio_dark", "showroom",
                "outdoor_neutral", "dealership", "unknown"}

CustomConfigs ==
    {[top_color |-> <<300, 128, -20>>, horizon_color |-> <<270, 128, -10>>,
      floor_color |-> <<260, 140, -5>>, horizon_position |-> 65, floor_gradient |-> 6],
     [PRESETS("studio_dark") EXCEPT !.floor_gradient = 40]}
      \cup {[PRESETS("outdoor_neutral") EXCEPT !.horizon_position = hp] :
               hp \in {-150, -50, 0, 100, 101, 150}}

Casts == {"wrap", "saturate"}

call_create_studio_background ==
    /\ pc = "idle"
    /\ \E width \in -1 .. BgMaxW, height \in -1 .. BgMaxH, cast \in Casts,
          config \in {PRESETS(n) : n \in PresetNames} \cup CustomConfigs:
          /\ args' = [fn |-> "create_studio_background", width |-> width,
                      height |-> height, config |-> config, cast |-> cast]
          /\ ret' = create_studio_background(width, height, config, cast)
    /\ pc' = "returned"
    /\ UNCHANGED compositeVars

VignetteStrengths == {-50, 0, 15, 30, 100, 150}

call_add_vignette ==
    /\ pc = "idle"
    /\ \E width \in 1 .. BgMaxW, height \in 1 .. BgMaxH, cast \in Casts,
          n \in {"studio_white", "studio_dark"}, strength \in VignetteStrengths:
          \E image \in {create_studio_background(width, height, PRESETS(n), cast)}:
              /\ args' = [fn |-> "add_vignette", image |-> image,
                          strength |-> strength, cast |-> cast]
              /\ ret' = add_vignette(image, strength, cast)
    /\ pc' = "returned"
    /\ UNCHANGED compositeVars

\* add_floor_reflection_area, background.py 211-236: rows from int(h * 0.65) on
\* are multiplied by 1 + (1 - t) * reflection_opacity (in 1/100) and clipped
add_floor_reflection_area(bg, reflection_opacity) ==
    LET h == bg.h
        horizon_y == TruncDiv(h * 65, 100)
    IN  Arr(h, bg.w, LAMBDA y, x:
            [c \in 1 .. 3 |->
                IF y < horizon_y THEN At(bg, y, x)[c]
                ELSE Min(MaxPixel,
                         TruncAffine(0, At(bg, y, x)[c],
                                     100 * (h - horizon_y) + reflection_opacity * (h - y),
                                     100 * (h - horizon_y)))])

\* add_ambient_lighting, background.py 173-209, intensity in 1/100 (0 .. 100).  The
\* light is 1 - dist with dist ** 2 = N / D: Y / h for 'top', the distance from the
\* top-left or top-right corner for 'top_left' and 'top_right', 0 for any other
\* position.  A channel v becomes int(min(255, v * (1 + (1 - dist) * intensity))),
\* the largest k with k * den <= v * (den + num) - v * num * dist.
add_ambient_lighting(image, light_position, intensity) ==
    LET h == image.h
        w == image.w
        g == CHOOSE m \in 1 .. 100:
                 /\ intensity % m = 0 /\ 100 % m = 0
                 /\ \A n \in (m + 1) .. 100: ~(intensity % n = 0 /\ 100 % n = 0)
        num == intensity \div g
        den == 100 \div g
        D == w * w * h * h
        N(y, x) == CASE light_position = "top" -> y * y * w * w
                     [] light_position = "top_left" -> x * x * h * h + y * y * w * w
                     [] light_position = "top_right" ->
                            (w - x) * (w - x) * h * h + y * y * w * w
                     [] OTHER -> 0
        lit(v, n) == LET T == v * (den + num)
                         S == v * num
                         ks == {k \in Max(0, (2 * T - 3 * S) \div (2 * den) - 1) .. (T \div den):
                                   S * S * n <= (T - den * k) * (T - den * k) * D}
                     IN  CHOOSE k \in ks: \A m \in ks: m <= k
    IN  Arr(h, w, LAMBDA y, x:
            [c \in 1 .. 3 |-> Min(MaxPixel, lit(At(image, y, x)[c], N(y, x)))])

\* create_complete_background, background.py 272-310, as process calls it.  The
\* presets' values stay in 0..255, so the casts to uint8 keep them as they are.
create_complete_background(width, height, preset) ==
    add_vignette(
        add_ambient_lighting(
            add_floor_reflection_area(
                create_studio_background(width, height, PRESETS(preset), "saturate"), 3),
            "top", 5),
        15, "saturate")

\* the reflection-zone pass of create_complete_background (lines 296-300) on the
\* studio background of a preset
call_add_floor_reflection_area ==
    /\ pc = "idle"
    /\ \E width \in 1 .. BgMaxW, height \in 1 .. (BgMaxH + 1), preset \in PresetNames \ {"unknown"}:
          \E bg \in {create_studio_background(width, height, PRESETS(preset), "saturate")}:
              /\ args' = [fn |-> "add_floor_reflection_area", preset |-> preset, image |-> bg]
              /\ ret' = add_floor_reflection_area(bg, 3)
    /\ pc' = "returned"
    /\ UNCHANGED compositeVars

\* add_ambient_lighting on the studio background of a preset
call_add_ambient_lighting ==
    /\ pc = "idle"
    /\ \E width \in 1 .. BgMaxW, height \in 1 .. BgMaxH,
          preset \in {"studio_white", "studio_dark", "outdoor_neutral"},
          light_position \in {"top", "top_left", "top_right", "bottom"},
          intensity \in {0, 5, 10, 50}:
          \E image \in {create_studio_background(width, height, PRESETS(preset), "saturate")}:
              /\ args' = [fn |-> "add_ambient_lighting", image |-> image,
                          light_position |-> light_position, intensity |-> intensity]
              /\ ret' = add_ambient_lighting(image, light_position, intensity)
    /\ pc' = "returned"
    /\ UNCHANGED compositeVars

NextBackground ==
    \/ call_create_studio_background
    \/ call_add_vignette
    \/ call_add_floor_reflection_area
    \/ call_add_ambient_lighting

SpecBackground == Init /\ [][NextBackground]_vars


(***************************************************************************)
(* C12: create_studio_background returns height rows by width columns of   *)
(* three channels, each holding the computed gradient value limited to     *)
(* 0..255 (above 255 stored as 255, below 0 as 0, never wrapped); the      *)
(* same for add_vignette.                                                  *)
(***************************************************************************)
StudioReturned == pc = "returned" /\ args.fn = "create_studio_background"
VignetteReturned == pc = "returned" /\ args.fn = "add_vignette"

Limited(v) == IF v < 0 THEN 0 ELSE IF v > MaxPixel THEN MaxPixel ELSE v

C12_ValuesLimited ==
    /\ (StudioReturned /\ IsArray(ret)) =>
          /\ ret.h = args.height /\ ret.w = args.width
          /\ \A p \in Pixels(ret): \A c \in 1 .. 3:
                ret.d[p][c] = Limited(studio_value(args.config, args.height, p[1], c))
    /\ VignetteReturned =>
          /\ ret.h = args.image.h /\ ret.w = args.image.w
          /\ \A p \in Pixels(ret): \A c \in 1 .. 3:
                ret.d[p][c] = Limited(vignette_value(args.image, args.strength, p[1], p[2], c))

(***************************************************************************)
(* C13: create_studio_background with width <= 0 or height <= 0 fails and  *)
(* returns no buffer.                                                      *)
(***************************************************************************)
C13_InvalidDimensionsRejected ==
    (StudioReturned /\ (args.width <= 0 \/ args.height <= 0)) => IsErr(ret)

(***************************************************************************)
(* C14: with horizon_position outside (0, 1) create_studio_background does *)
(* not fail, returns the buffer of the position clamped into [0, 1], and   *)
(* writes no row outside 0 .. height - 1.                                  *)
(***************************************************************************)
ClampedConfig ==
    [args.config EXCEPT !.horizon_position = Max(0, Min(100, args.config.horizon_position))]

C14_HorizonClamped ==
    (/\ StudioReturned
     /\ args.width > 0 /\ args.height > 0
     /\ (args.config.horizon_position <= 0 \/ args.config.horizon_position >= 100)) =>
        /\ ~IsErr(ret)
        /\ ret = create_studio_background(args.width, args.height, ClampedConfig, args.cast)
        /\ \A i \in DOMAIN rows_written(args.height, args.config):
              rows_written(args.height, args.config)[i] \in 0 .. (args.height - 1)

(***************************************************************************)
(* C15: for colours within 0..255, in the wall rows 0 <= y < horizon_y     *)
(* each channel is monotonic in y (non-increasing when top_color >=        *)
(* horizon_color on it, non-decreasing otherwise), lies between top_color  *)
(* and horizon_color, equals top_color in row 0, and is the same in every  *)
(* pixel of a row.                                                         *)
(***************************************************************************)
ValidColours ==
    \A c \in 1 .. 3: /\ args.config.top_color[c] \in 0 .. MaxPixel
                     /\ args.config.horizon_color[c] \in 0 .. MaxPixel

WallRows == 0 .. (Min(horizon_row(args.height, args.config), args.height) - 1)

C15_WallGradientMonotonic ==
    (StudioReturned /\ IsArray(ret) /\ ValidColours) =>
        \A c \in 1 .. 3:
            LET top == args.config.top_color[c]
                hor == args.config.horizon_color[c]
            IN  \A p \in Pixels(ret):
                    p[1] \in WallRows =>
                        /\ Min(top, hor) <= ret.d[p][c] /\ ret.d[p][c] <= Max(top, hor)
                        /\ p[1] = 0 => ret.d[p][c] = top
                        /\ ret.d[p][c] = ret.d[<<p[1], 0>>][c]
                        /\ (p[1] + 1) \in WallRows =>
                              IF top >= hor
                              THEN ret.d[<<p[1] + 1, p[2]>>][c] <= ret.d[p][c]
                              ELSE ret.d[<<p[1] + 1, p[2]>>][c] >= ret.d[p][c]

\* a wall of at least three rows and two columns whose rows differ
C15_Witness ==
    /\ StudioReturned
    /\ IsArray(ret)
    /\ ValidColours
    /\ ret.w >= 2
    /\ Cardinality(WallRows) >= 3
    /\ ret.d[<<2, 1>>][1] < ret.d[<<1, 1>>][1]
    /\ ret.d[<<1, 1>>][1] < ret.d[<<0, 1>>][1]


(***************************************************************************)
(* composite_final called a second time by the same caller with the same   *)
(* buffers, whatever the first call left in them; ret keeps the image the  *)
(* first call returned and args the buffers as they were handed to it.     *)
(***************************************************************************)
call_composite_final_again ==
    /\ pc = "done"
    /\ args.fn = "composite_final"
    /\ IsNone(ret)
    /\ ret' = final
    /\ pc' = "call"
    /\ ops' = <<>>
    /\ UNCHANGED <<background, car_image, car_mask, shadows, reflection, reflection_mask,
                   car_position, output_size, result, xy, shadow_idx, final, args>>

NextTwice ==
    \/ call_composite_final
    \/ composite_begin
    \/ composite_reflection
    \/ composite_shadow
    \/ composite_car
    \/ composite_return
    \/ call_composite_final_again

SpecTwice == Init /\ [][NextTwice]_vars

(***************************************************************************)
(* C16: composite_final never modifies an argument buffer (background,     *)
(* car_image, car_mask, the shadow layers, reflection, reflection_mask),   *)
(* and a second call with the same buffers returns an image identical to   *)
(* the first one's.                                                        *)
(***************************************************************************)
BuffersAsPassed ==
    /\ background = args.background
    /\ car_image = args.car_image
    /\ car_mask = args.car_mask
    /\ shadows = args.shadows
    /\ reflection = args.reflection
    /\ reflection_mask = args.reflection_mask

C16_Deterministic ==
    pc # "idle" =>
        /\ BuffersAsPassed
        /\ (pc = "done" /\ ~IsNone(ret)) => final = ret

\* a second call that blended all five layers and changed the canvas
C16_Witness ==
    /\ pc = "done"
    /\ ~IsNone(ret)
    /\ final = ret
    /\ final # background
    /\ BuffersAsPassed
    /\ ops = <<"reflection", "drop", "ambient", "contact", "car">>


(***************************************************************************)
(* composite_final and create_final_composite (composite.py 254-302) on a  *)
(* subject whose mask has another size than its image.  args keeps the     *)
(* image and the mask as the caller passed them.                           *)
(***************************************************************************)
MismatchedSizes ==
    {s \in CarSizes \X {<<1, 1>>, <<1, 2>>, <<2, 1>>, <<MaxLayer, MaxLayer>>,
                        <<MaxLayer + 1, MaxLayer + 1>>} : s[1] # s[2]}

call_composite_final_mismatched ==
    /\ pc = "idle"
    /\ \E k \in 1 .. 2, s \in MismatchedSizes, mk \in MaskKinds, p \in Positions,
          sc \in {"absent", "layer"}:
          /\ background' = Bg(k)
          /\ car_image' = Car(s[1][2], s[1][1])
          /\ car_mask' = MaskOf(mk, s[2][2], s[2][1])
          /\ shadows' = [t \in {"drop", "ambient", "contact"} |->
                            IF t = "contact" THEN ShadowOf(sc, t) ELSE Absent]
          /\ car_position' = p
    /\ reflection' = NoneVal
    /\ reflection_mask' = NoneVal
    /\ output_size' = <<>>
    /\ args' = [fn |-> "composite_final", car_image |-> car_image', car_mask |-> car_mask']
    /\ pc' = "call"
    /\ ops' = <<>>
    /\ UNCHANGED <<result, xy, shadow_idx, final, ret>>

\* lines 279-302: the optional scaling and positioning, then composite_final
call_create_final_composite ==
    /\ pc = "idle"
    /\ \E k \in 1 .. 2, s \in MismatchedSizes, mk \in MaskKinds,
          auto_position \in BOOLEAN, auto_scale \in BOOLEAN:
          \E image \in {Car(s[1][2], s[1][1])}, mask \in {MaskOf(mk, s[2][2], s[2][1])}:
          \E scaled \in {IF auto_scale
                         THEN scale_car_to_fit(image, mask, CanvasW, CanvasH, 75, 50)
                         ELSE <<image, mask>>}:
              /\ args' = [fn |-> "create_final_composite", car_image |-> image,
                          car_mask |-> mask, auto_scale |-> auto_scale,
                          auto_position |-> auto_position]
              /\ background' = Bg(k)
              /\ IF IsErr(scaled[1])
                 THEN /\ pc' = "raised"
                      /\ UNCHANGED <<car_image, car_mask, car_position>>
                 ELSE /\ pc' = "call"
                      /\ car_image' = scaled[1]
                      /\ car_mask' = scaled[2]
                      /\ car_position' =
                            IF auto_position
                            THEN auto_position_car(CanvasW, CanvasH,
                                                   scaled[1].w, scaled[1].h, 65)
                            ELSE <<>>
    /\ shadows' = [t \in {"drop", "ambient", "contact"} |-> Absent]
    /\ reflection' = NoneVal
    /\ reflection_mask' = NoneVal
    /\ output_size' = <<>>
    /\ ops' = <<>>
    /\ UNCHANGED <<result, xy, shadow_idx, final, ret>>

NextMismatch ==
    \/ call_composite_final_mismatched
    \/ call_create_final_composite
    \/ composite_begin
    \/ composite_reflection
    \/ composite_shadow
    \/ composite_car
    \/ composite_return

SpecMismatch == Init /\ [][NextMismatch]_vars

(***************************************************************************)
(* C17: when the subject image and the subject mask differ in height or    *)
(* width, composite_final and create_final_composite abort with an error   *)
(* and return no image, for every pair of sizes and every position.        *)
(***************************************************************************)
Mismatched ==
    /\ pc # "idle"
    /\ (args.car_image.h # args.car_mask.h \/ args.car_image.w # args.car_mask.w)

C17_MismatchAborts == Mismatched => pc \notin {"return", "done"}


(***************************************************************************)
(* ShadowGenerator.composite_shadows (shadows.py 193-232).                 *)
(***************************************************************************)
\* the list of line 217
CompositeShadowsOrder == <<"drop", "ambient", "contact">>

\* lines 221-230 for one layer: None has no astype, and a layer of another shape
\* is broadcast by numpy or rejected
apply_shadow(res, shadow, blend_mode) ==
    IF IsErr(res) \/ ~IsArray(shadow) THEN ErrVal
    ELSE IF ~(/\ Compatible(res.h, shadow.h) /\ Broadcast(res.h, shadow.h) = res.h
              /\ Compatible(res.w, shadow.w) /\ Broadcast(res.w, shadow.w) = res.w)
    THEN ErrVal
    ELSE Arr(res.h, res.w, LAMBDA y, x:
            LET b == At(res, y, x)
                s == At(shadow, BIdx(y, shadow.h), BIdx(x, shadow.w))
                sub == RoundDiv(s * 100 * FloatScale, MaxPixel)
            IN  IF blend_mode = "multiply"
                THEN <<Multiply(b[1], s), Multiply(b[2], s), Multiply(b[3], s)>>
                ELSE <<b[1] - sub, b[2] - sub, b[3] - sub>>)

\* the layers the loop of lines 217-230 applies, in its order
shadows_applied(layers) ==
    SelectSeq(CompositeShadowsOrder, LAMBDA t: ~IsAbsent(layers[t]))

composite_shadows(bg, layers, blend_mode) ==
    LET step(res, t) == IF IsAbsent(layers[t]) THEN res
                        ELSE apply_shadow(res, layers[t], blend_mode)
        blended == step(step(step(ToFloat3(bg), CompositeShadowsOrder[1]),
                             CompositeShadowsOrder[2]), CompositeShadowsOrder[3])
    IN  IF IsErr(blended) THEN ErrVal ELSE ClipToBytes(blended)

(***************************************************************************)
(* Calls of composite_shadows and of Compositor._blend_shadow.             *)
(***************************************************************************)
DarkenKinds(t) ==
    IF t = "drop" THEN {"absent", "layer", "zero", "None", "pixel"}
    ELSE {"absent", "layer", "zero"}

DarkenLayer(kind, t) ==
    CASE kind = "zero" -> Zeros(CanvasH, CanvasW)
      [] kind = "pixel" -> Arr(1, 1, LAMBDA y, x: 51)
      [] OTHER -> ShadowOf(kind, t)

call_composite_shadows ==
    /\ pc = "idle"
    /\ \E k \in 1 .. 2, blend_mode \in {"multiply", "overlay"},
          sd \in DarkenKinds("drop"), sa \in DarkenKinds("ambient"),
          sc \in DarkenKinds("contact"):
          \E layers \in {[t \in {"drop", "ambient", "contact"} |->
                            DarkenLayer(IF t = "drop" THEN sd
                                        ELSE IF t = "ambient" THEN sa ELSE sc, t)]}:
              /\ args' = [fn |-> "composite_shadows", background |-> Bg(k),
                          shadows |-> layers, blend_mode |-> blend_mode]
              /\ ret' = [image |-> composite_shadows(Bg(k), layers, blend_mode),
                         applied |-> shadows_applied(layers)]
    /\ pc' = "returned"
    /\ UNCHANGED compositeVars

call_blend_shadow ==
    /\ pc = "idle"
    /\ \E k \in 1 .. 2, t \in {"drop", "ambient", "contact"},
          kind \in {"layer", "zero", "pixel"}:
          \E base \in {ToFloat3(Bg(k))}, shadow \in {DarkenLayer(kind, t)}:
              /\ args' = [fn |-> "_blend_shadow", base |-> base, shadow |-> shadow]
              /\ ret' = blend_shadow(base, shadow)
    /\ pc' = "returned"
    /\ UNCHANGED compositeVars

NextDarken ==
    \/ call_composite_shadows
    \/ call_blend_shadow

SpecDarken == Init /\ [][NextDarken]_vars

(***************************************************************************)
(* C18: composite_shadows in multiply mode applies the layers present in   *)
(* the order drop, ambient, contact and, like _blend_shadow, only darkens: *)
(* every channel of every pixel is at most the background's, and equal to  *)
(* it where every shadow intensity is 0.                                   *)
(***************************************************************************)
Darkened == pc = "returned" /\ args.fn = "composite_shadows"
                            /\ args.blend_mode = "multiply" /\ IsArray(ret.image)
ShadowBlended == pc = "returned" /\ args.fn = "_blend_shadow" /\ IsArray(ret)

\* the intensity of layer t over pixel p, 0 for a missing layer
IntensityAt(t, p) ==
    LET l == args.shadows[t]
    IN  IF IsAbsent(l) THEN 0 ELSE At(l, BIdx(p[1], l.h), BIdx(p[2], l.w))

PresentLayer(t) == IF IsAbsent(args.shadows[t]) THEN <<>> ELSE <<t>>

C18_ShadowsOnlyDarken ==
    /\ Darkened =>
          /\ ret.applied = PresentLayer("drop") \o PresentLayer("ambient")
                                 \o PresentLayer("contact")
          /\ \A p \in Pixels(args.background): \A c \in 1 .. 3:
                /\ ret.image.d[p][c] <= args.background.d[p][c]
                /\ (\A t \in {"drop", "ambient", "contact"}: IntensityAt(t, p) = 0)
                      => ret.image.d[p][c] = args.background.d[p][c]
    /\ ShadowBlended =>
          \A p \in Pixels(args.base): \A c \in 1 .. 3:
              /\ ret.d[p][c] <= args.base.d[p][c]
              /\ At(args.shadow, BIdx(p[1], args.shadow.h), BIdx(p[2], args.shadow.w)) = 0
                    => ret.d[p][c] = args.base.d[p][c]

\* three layers applied, one pixel darkened and another left as it was
C18_Witness ==
    /\ Darkened
    /\ ret.applied = <<"drop", "ambient", "contact">>
    /\ \E p \in Pixels(args.background): ret.image.d[p][1] < args.background.d[p][1]
    /\ \E p \in Pixels(args.background):
          /\ \A t \in {"drop", "ambient", "contact"}: IntensityAt(t, p) = 0
          /\ ret.image.d[p] = args.background.d[p]


(***************************************************************************)
(* The contact layer of create_shadow_layer on masks tall enough for a     *)
(* contact shadow of one row: int(car_height * 0.015) is 1 from a          *)
(* car_height of 67.  Each mask holds one solid rectangle of value 255.    *)
(***************************************************************************)
ContactH == 70
ContactW == 5

\* <<y_min, y_max, x_min, x_max>> of the rectangles
ContactBoxes ==
    {b \in {0, 2} \X ((ContactH - 4) .. (ContactH - 1))
              \X (0 .. (ContactW - 1)) \X (0 .. (ContactW - 1)): b[3] <= b[4]}

call_contact_shadow_layer ==
    /\ pc = "idle"
    /\ \E b \in ContactBoxes:
          \E mask \in {Arr(ContactH, ContactW, LAMBDA y, x:
                          IF y >= b[1] /\ y <= b[2] /\ x >= b[3] /\ x <= b[4]
                          THEN MaxPixel ELSE 0)}:
              /\ args' = [fn |-> "contact_shadow_layer", box |-> b]
              /\ ret' = create_shadow_layer(mask, "contact")
    /\ pc' = "returned"
    /\ UNCHANGED compositeVars

SpecContact == Init /\ [][call_contact_shadow_layer]_vars

(***************************************************************************)
(* C19: for a mask holding one solid rectangle with bounding box (x_min,   *)
(* y_min, x_max, y_max), the non-zero values of the contact layer lie in   *)
(* a band of rows that starts at y_max + offset_y and whose height is      *)
(* within 1 pixel of scale_y times the box height y_max - y_min, and in    *)
(* the columns from x_min + floor((box width - shadow width) / 2) on,      *)
(* int(box width * scale_x) of them, box width being x_max - x_min.        *)
(***************************************************************************)
ContactReturned ==
    /\ pc = "returned"
    /\ args.fn = "contact_shadow_layer"
    /\ ~IsErr(ret)

ContactNonZero == {p \in Pixels(ret): ret.d[p] # 0}

call_process ==
    /\ pc = "idle"
    /\ \E os \in {<<MaxTarget - 1, MaxTarget>>, <<MaxTarget, MaxTarget>>},
          cs \in {<<1, 1>>, <<3, 1>>, <<3, 2>>, <<MaxCar, 2>>, <<MaxTarget, MaxCar>>},
          colour \in {<<255, 255, 255>>, <<0, 0, 0>>, <<30, 120, 250>>},
          preset \in {"studio_white", "studio_dark"}:
          \E scaled \in {scale_car_to_fit(Arr(cs[2], cs[1], LAMBDA y, x: colour),
                                          MaskOf("full", cs[2], cs[1]),
                                          os[1], os[2], 75, 50)}:
          \E position \in {auto_position_car(os[1], os[2], scaled[1].w, scaled[1].h, 65)}:
          \E canvas_mask \in {full_mask(os[1], os[2], scaled[2], position[1], position[2])}:
          \E layers \in {create_all_shadows(canvas_mask)},
             refl \in {create_reflection(scaled[1], scaled[2], 18, 50, 2, 0)}:
          \E raised \in {(\E t \in DOMAIN layers: IsErr(layers[t])) \/ IsErr(refl[1])}:
              /\ args' = [fn |-> "process", output_size |-> os, car_size |-> cs,
                          colour |-> colour, preset |-> preset]
              /\ background' = create_complete_background(os[1], os[2], preset)
              /\ car_image' = scaled[1]
              /\ car_mask' = scaled[2]
              /\ shadows' = IF raised THEN shadows ELSE layers
              /\ reflection' = IF raised THEN reflection ELSE refl[1]
              /\ reflection_mask' = IF raised THEN reflection_mask ELSE refl[2]
              /\ car_position' = position
              /\ output_size' = <<>>
              /\ pc' = IF raised THEN "raised" ELSE "call"
    /\ ops' = <<>>
    /\ UNCHANGED <<result, xy, shadow_idx, final, ret>>

NextProcess ==
    \/ call_process
    \/ composite_begin
    \/ composite_reflection
    \/ composite_shadow
    \/ composite_car
    \/ composite_return

SpecProcess == Init /\ [][NextProcess]_vars

(***************************************************************************)
(* C20: when process has composited a fully opaque rectangular subject,    *)
(* the canvas row immediately below the placed rectangle's bottom edge is, *)
(* in every column of the rectangle, strictly darker than the background   *)
(* alone: the intensities of the pixel sum to less than the background's.  *)
(***************************************************************************)
Processed ==
    /\ pc = "done"
    /\ args.fn = "process"
    /\ car_position[2] + car_image.h < background.h

Brightness(px) == px[1] + px[2] + px[3]

C20_RowBelowDarker ==
    Processed =>
        \A x \in car_position[1] .. (car_position[1] + car_image.w - 1):
            Brightness(At(final, car_position[2] + car_image.h, x))
                < Brightness(At(background, car_position[2] + car_image.h, x))


(***************************************************************************)
(* C21: for every preset and height with two rows of wall and of floor, the *)
(* per-channel difference between the last wall row horizon_y - 1 and the  *)
(* first floor row horizon_y is no larger than the largest difference      *)
(* between two vertically adjacent rows inside the wall or inside the      *)
(* floor, plus 1 level.                                                    *)
(***************************************************************************)
PresetReturned ==
    /\ StudioReturned
    /\ IsArray(ret)
    /\ args.width >= 1
    /\ args.config \in {PRESETS(n) : n \in PresetNames}
    /\ horizon_row(args.height, args.config) \in 2 .. (args.height - 2)

RowStep(y, c) == Abs(ret.d[<<y + 1, 0>>][c] - ret.d[<<y, 0>>][c])

C21_SmoothAcrossHorizon ==
    PresetReturned =>
        LET horizon_y == horizon_row(args.height, args.config)
            inside == (0 .. (args.height - 2)) \ {horizon_y - 1}
        IN  \A c \in 1 .. 3:
                \/ RowStep(horizon_y - 1, c) <= 1
                \/ \E y \in inside: RowStep(horizon_y - 1, c) <= RowStep(y, c) + 1


(***************************************************************************)
(* C22: the rows brightened by the reflection-zone pass of                 *)
(* create_complete_background are the floor rows of the preset in use, the *)
(* rows y >= int(height * horizon_position of that preset): no wall row is *)
(* brightened, and the brightened rows begin at the first floor row.  A    *)
(* later floor row whose boost is lost when the value is truncated is not  *)
(* counted as skipped.                                                     *)
(***************************************************************************)
ZoneReturned == pc = "returned" /\ args.fn = "add_floor_reflection_area"

Brightened(y) ==
    \E x \in 0 .. (ret.w - 1): \E c \in 1 .. 3: ret.d[<<y, x>>][c] > args.image.d[<<y, x>>][c]

C22_ReflectionZoneIsPresetFloor ==
    ZoneReturned =>
        LET floor_y == horizon_row(ret.h, PRESETS(args.preset))
            rows == {y \in 0 .. (ret.h - 1): Brightened(y)}
        IN  /\ \A y \in rows: y >= floor_y
            /\ rows # {} => floor_y \in rows


(***************************************************************************)
(* C23: add_ambient_lighting with intensity >= 0 only brightens: for every *)
(* light_position, image size and pixel, each output channel is greater    *)
(* than or equal to the input channel.                                     *)
(***************************************************************************)
AmbientReturned == pc = "returned" /\ args.fn = "add_ambient_lighting"

C23_AmbientOnlyBrightens ==
    AmbientReturned =>
        \A p \in Pixels(ret): \A c \in 1 .. 3: ret.d[p][c] >= args.image.d[p][c]


(***************************************************************************)
(* create_spyne_exact_render (background_3d.py 337-391) on a subject mask  *)
(* of zeros.  The studio is the image step 1 hands to the later steps;     *)
(* they only read it.                                                      *)
(***************************************************************************)
RenderW == 6
RenderH == 64

\* Studio3DGenerator.create_3d_studio, lines 78-104, reduced to the base colours of
\* STUDIO_PRESETS (lines 26-75): wall_base above int(height * horizon), floor_base
\* from it on.  The ceiling, the grooves, the reflecting floor and the lighting are
\* not drawn.
create_3d_studio(width, height, preset) ==
    LET config == CASE preset = "spyne_white" ->
                        [wall_base |-> <<248, 248, 250>>, floor_base |-> <<225, 225, 230>>,
                         horizon |-> 52]
                   [] preset = "spyne_dark" ->
                        [wall_base |-> <<75, 75, 80>>, floor_base |-> <<45, 45, 50>>,
                         horizon |-> 55]
                   [] OTHER ->
                        [wall_base |-> <<235, 235, 238>>, floor_base |-> <<195, 195, 200>>,
                         horizon |-> 55]
        horizon_y == TruncDiv(height * config.horizon, 100)
    IN  Arr(height, width, LAMBDA y, x:
            IF y < horizon_y THEN config.wall_base ELSE config.floor_base)

\* _add_car_shadow, lines 394-429, on a mask of car_h rows and car_w columns (only
\* the mask's shape is read).  The ellipse is the set of pixels within the axes
\* (shadow_w // 2, shadow_h) of the centre, 255 standing for 1.0; the darkness is
\* 0.4 times the blurred value.  GaussianBlur raises on an empty patch.
add_car_shadow(img, car_h, car_w, car_pos, floor_y) ==
    LET shadow_h == TruncDiv(car_h * 3, 100)
        shadow_w == TruncDiv(car_w * 95, 100)
        shadow_x == car_pos[1] + ((car_w - shadow_w) \div 2)
        shadow_y == floor_y - 2
        a == shadow_w \div 2
        b == shadow_h
        ellipse == Arr(shadow_h * 3, shadow_w, LAMBDA y, x:
                       IF (x - a) * (x - a) * b * b + (y - b) * (y - b) * a * a <= a * a * b * b
                       THEN MaxPixel ELSE 0)
        shadow == GaussianBlur(ellipse, 21)
    IN  IF IsErr(shadow) THEN ErrVal
        ELSE Arr(img.h, img.w, LAMBDA y, x:
                 IF /\ y - shadow_y \in 0 .. (shadow.h - 1)
                    /\ x - shadow_x \in 0 .. (shadow.w - 1)
                 THEN [c \in 1 .. 3 |->
                          TruncAffine(0, At(img, y, x)[c],
                                      10 * MaxPixel - 4 * At(shadow, y - shadow_y, x - shadow_x),
                                      10 * MaxPixel)]
                 ELSE At(img, y, x))

\* create_spyne_exact_render, lines 337-391, for a car_mask of zeros of car_h rows
\* and car_w columns: the resized mask is zero, so the reflection (step 4) and the
\* subject (step 6) store result * (1 - 0) + layer * 0, the pixel itself.  The
\* scale is min(0.70 * w / car_w, 0.55 * h / car_h); cv2.resize raises on a
\* destination of no rows or no columns.
create_spyne_exact_render(studio, car_h, car_w) ==
    LET w == studio.w
        h == studio.h
        by_width == 14 * w * car_h <= 11 * h * car_w
        new_w == IF by_width THEN TruncDiv(7 * w, 10) ELSE TruncDiv(car_w * 11 * h, 20 * car_h)
        new_h == IF by_width THEN TruncDiv(car_h * 7 * w, 10 * car_w) ELSE TruncDiv(11 * h, 20)
        car_x == (w - new_w) \div 2
        horizon_y == TruncDiv(h * 55, 100)
        car_y == horizon_y - new_h + TruncDiv(new_h * 15, 100)
    IN  IF new_w <= 0 \/ new_h <= 0 \/ TruncDiv(new_h * 6, 10) <= 0 THEN ErrVal
        ELSE add_car_shadow(studio, new_h, new_w, <<car_x, car_y>>, horizon_y)

\* sizes at which no product the code truncates is a whole number, so that the
\* truncation does not hang on the rounding of the float
call_create_spyne_exact_render ==
    /\ pc = "idle"
    /\ \E w \in {RenderW - 1, RenderW}, h \in {8, RenderH - 1, RenderH},
          car_w \in 1 .. 3, car_h \in 1 .. 12,
          preset \in {"spyne_showroom", "spyne_white", "spyne_dark"}:
          /\ (7 * w) % 10 # 0 /\ (11 * h) % 20 # 0
          /\ (car_h * 7 * w) % (10 * car_w) # 0
          /\ (car_w * 11 * h) % (20 * car_h) # 0
          /\ \E studio \in {create_3d_studio(w, h, preset)}:
                /\ args' = [fn |-> "create_spyne_exact_render", studio |-> studio,
                            car_w |-> car_w, car_h |-> car_h, preset |-> preset]
                /\ ret' = create_spyne_exact_render(studio, car_h, car_w)
    /\ pc' = "returned"
    /\ UNCHANGED compositeVars

SpecRender == Init /\ [][call_create_spyne_exact_render]_vars

(***************************************************************************)
(* C24: in create_spyne_exact_render a subject mask that is all zeros      *)
(* yields an output equal to the studio background of create_3d_studio for *)
(* the same size and preset.                                               *)
(***************************************************************************)
C24_ZeroMaskGivesStudio ==
    (pc = "returned" /\ args.fn = "create_spyne_exact_render") => ret = args.studio


(***************************************************************************)
(* StudioBackground.composite_car_on_studio (studio_background.py 198-275) *)
(* with add_shadow: where the centre of the contact-shadow ellipse lands   *)
(* on the canvas.  The subject is resized and placed by                    *)
(* place_car_on_turntable, and the silhouette bounds x_min, x_max, y_max   *)
(* of the resized mask are inputs.                                         *)
(***************************************************************************)
StudioSize == 20

\* create_contact_shadow draws the ellipse in an array of the mask's shape with its
\* centre at column (x_min + x_max) // 2 and row y_max + 5 (line 128);
\* composite_car_on_studio multiplies canvas pixel (shadow_y + y, car_x + x) by
\* 1 - shadow[y, x] / 255 with shadow_y = car_y + y_max - shadow.shape[0] // 2
\* (lines 261-271).  <<column, row>> of the canvas pixel under the centre.
contact_shadow_centre(mask_h, car_x, car_y, x_min, x_max, y_max) ==
    LET shadow_y == car_y + y_max - (mask_h \div 2)
    IN  <<car_x + ((x_min + x_max) \div 2), shadow_y + (y_max + 5)>>

\* place_car_on_turntable, lines 60-104, scale 0.55 and y_offset 0, then the shadow
\* step of composite_car_on_studio
call_composite_car_on_studio ==
    /\ pc = "idle"
    /\ \E bg_width \in (StudioSize - 1) .. StudioSize,
          bg_height \in (StudioSize - 6) .. StudioSize,
          car \in {<<1, 1>>, <<2, 1>>, <<5, 3>>}:
          LET cx == bg_width \div 2
              cy == TruncDiv(bg_height * 85, 100)
              radius == TruncDiv(Min(bg_width, bg_height) * 28, 100)
              target_width == TruncDiv(radius * 2 * 55, 100)
              target_height == (target_width * car[2]) \div car[1]
              car_x == Max(0, Min(cx - (target_width \div 2), bg_width - target_width))
              car_y == Max(0, Min(cy - target_height + TruncDiv(target_height * 15, 100),
                                  bg_height - target_height))
          IN  \E x_min \in 0 .. (target_width - 1), x_max \in 0 .. (target_width - 1),
                 y_max \in 0 .. (target_height - 1):
                 /\ x_min <= x_max
                 /\ args' = [fn |-> "composite_car_on_studio", car_x |-> car_x,
                             car_y |-> car_y, mask_h |-> target_height,
                             x_min |-> x_min, x_max |-> x_max, y_max |-> y_max]
                 /\ ret' = contact_shadow_centre(target_height, car_x, car_y,
                                                 x_min, x_max, y_max)
    /\ pc' = "returned"
    /\ UNCHANGED compositeVars

SpecStudio == Init /\ [][call_composite_car_on_studio]_vars

(***************************************************************************)
(* C25: in composite_car_on_studio with add_shadow the centre of the       *)
(* contact-shadow ellipse lands on canvas row car_y + y_max + 5 and canvas *)
(* column car_x + (x_min + x_max) // 2, for every mask and subject size.   *)
(***************************************************************************)
C25_ShadowAtWheelLevel ==
    (pc = "returned" /\ args.fn = "composite_car_on_studio") =>
        /\ ret[1] = args.car_x + ((args.x_min + args.x_max) \div 2)
        /\ ret[2] = args.car_y + args.y_max + 5


(***************************************************************************)
(* extract_frames (video360_server.py 41-69).  A video is its frame count  *)
(* as the container reports it and the number of frames that can be read.  *)
(***************************************************************************)
MaxFrames == 12
MaxNumFrames == 9

\* the indices with the i-th one taken at the end of its interval
frame_indices_interval_end(total_frames, num_frames) ==
    IF total_frames <= num_frames THEN [i \in 1 .. total_frames |-> i - 1]
    ELSE [i \in 1 .. num_frames |-> TruncDiv(i * total_frames, num_frames)]

\* lines 52-56: list(range(total_frames)), or int(i * total_frames / num_frames)
\* for i in range(num_frames)
frame_indices(total_frames, num_frames) ==
    IF total_frames <= num_frames THEN [i \in 1 .. total_frames |-> i - 1]
    ELSE [i \in 1 .. num_frames |-> TruncDiv((i - 1) * total_frames, num_frames)]

\* the frames returned are those of the indices at which cap.read() succeeds
call_extract_frames ==
    /\ pc = "idle"
    /\ \E total_frames \in 0 .. MaxFrames, num_frames \in 1 .. MaxNumFrames,
          readable \in 0 .. MaxFrames:
          /\ readable \in {total_frames, total_frames - 1}
          /\ args' = [fn |-> "extract_frames", total_frames |-> total_frames,
                      num_frames |-> num_frames, readable |-> readable]
          /\ ret' = IF total_frames = 0 THEN [raised |-> "ValueError"]
                    ELSE LET indices == frame_indices(total_frames, num_frames)
                         IN  [raised |-> "", indices |-> indices,
                              frames |-> SelectSeq(indices, LAMBDA idx: idx < readable)]
    /\ pc' = "returned"
    /\ UNCHANGED compositeVars

SpecFrames == Init /\ [][call_extract_frames]_vars

(***************************************************************************)
(* C26: for total_frames >= 1 and num_frames >= 1 the requested frame      *)
(* indices are strictly increasing, within [0, total_frames), exactly      *)
(* min(total_frames, num_frames) in number, start at 0, and when           *)
(* total_frames > num_frames any two consecutive gaps differ by at most 1; *)
(* total_frames = 0 raises ValueError.                                     *)
(***************************************************************************)
FramesReturned == pc = "returned" /\ args.fn = "extract_frames"

C26_FramesUniformlySpread ==
    FramesReturned =>
        IF args.total_frames = 0 THEN ret.raised = "ValueError"
        ELSE LET idx == ret.indices
                 n == Len(idx)
             IN  /\ ret.raised = ""
                 /\ n = Min(args.total_frames, args.num_frames)
                 /\ idx[1] = 0
                 /\ \A i \in 1 .. n: idx[i] \in 0 .. (args.total_frames - 1)
                 /\ \A i \in 1 .. (n - 1): idx[i] < idx[i + 1]
                 /\ args.total_frames > args.num_frames =>
                       \A i \in 1 .. (n - 2):
                           Abs((idx[i + 2] - idx[i + 1]) - (idx[i + 1] - idx[i])) <= 1

\* more frames than requested, and two consecutive gaps that differ
C26_Witness ==
    /\ FramesReturned
    /\ args.total_frames > args.num_frames
    /\ \E i \in 1 .. (Len(ret.indices) - 2):
          ret.indices[i + 2] - ret.indices[i + 1] # ret.indices[i + 1] - ret.indices[i]


(***************************************************************************)
(* The placement steps of SpyneCloneProcessor.process (process_image.py    *)
(* 243-293 and 324-338) on the sizes alone: the subject is scaled with the *)
(* ratios 0.75 and 0.50, positioned with the default horizon 0.65, its     *)
(* mask is copied into the canvas-sized shadow mask through the clipped    *)
(* slices, and the position is computed again for composite_final.         *)
(***************************************************************************)
PlaceMax == 12

call_place_subject ==
    /\ pc = "idle"
    /\ \E image_w \in (1 .. PlaceMax) \cup {k * PlaceMax : k \in 2 .. 6},
          image_h \in (1 .. PlaceMax) \cup {k * PlaceMax : k \in 2 .. 6},
          out_w \in (1 .. PlaceMax) \cup {k * PlaceMax : k \in 2 .. 6},
          out_h \in (1 .. PlaceMax) \cup {k * PlaceMax : k \in 2 .. 6}:
          LET s == scale_dims(image_w, image_h, out_w, out_h, 75, 50)
              \* cv2.resize raises on an empty destination size
              raised == s.shrink /\ (s.new_w <= 0 \/ s.new_h <= 0)
              car_w == IF s.shrink THEN s.new_w ELSE image_w
              car_h == IF s.shrink THEN s.new_h ELSE image_h
              \* lines 275-278
              position == auto_position_car(out_w, out_h, car_w, car_h, 65)
              x == position[1]
              y == position[2]
              \* lines 281-284
              y1 == Max(0, y)
              y2 == Min(out_h, y + car_h)
              x1 == Max(0, x)
              x2 == Min(out_w, x + car_w)
              cy1 == Max(0, 0 - y)
              cy2 == car_h - Max(0, y + car_h - out_h)
              cx1 == Max(0, 0 - x)
              cx2 == car_w - Max(0, x + car_w - out_w)
          IN  /\ args' = [fn |-> "place_subject", image_w |-> image_w, image_h |-> image_h,
                          out_w |-> out_w, out_h |-> out_h]
              /\ ret' = IF raised THEN [raised |-> TRUE]
                        ELSE [raised |-> FALSE, shrunk |-> s.shrink,
                              car_w |-> car_w, car_h |-> car_h,
                              shadow_position |-> position,
                              canvas_rows |-> <<y1, y2>>, canvas_cols |-> <<x1, x2>>,
                              mask_rows |-> <<cy1, cy2>>, mask_cols |-> <<cx1, cx2>>,
                              \* lines 324-327
                              car_position |-> auto_position_car(out_w, out_h, car_w, car_h, 65)]
    /\ pc' = "returned"
    /\ UNCHANGED compositeVars

SpecPlace == Init /\ [][call_place_subject]_vars

(***************************************************************************)
(* C27: in process, whenever scale_car_to_fit (ratios 0.75 and 0.50)       *)
(* succeeds, the position of auto_position_car (horizon 0.65) puts the     *)
(* whole subject rectangle on the canvas, 0 <= x, x + car_w <= out_w,      *)
(* 0 <= y and y + car_h <= out_h, so the mask is copied into the shadow    *)
(* mask unclipped and at the same (x, y) as the subject is composited.     *)
(***************************************************************************)
PlaceReturned == pc = "returned" /\ args.fn = "place_subject" /\ ~ret.raised

C27_SubjectOnCanvas ==
    PlaceReturned =>
        LET x == ret.car_position[1]
            y == ret.car_position[2]
        IN  /\ 0 <= x
            /\ x + ret.car_w <= args.out_w
            /\ 0 <= y
            /\ y + ret.car_h <= args.out_h
            /\ ret.shadow_position = ret.car_position
            /\ ret.canvas_rows = <<y, y + ret.car_h>>
            /\ ret.canvas_cols = <<x, x + ret.car_w>>
            /\ ret.mask_rows = <<0, ret.car_h>>
            /\ ret.mask_cols = <<0, ret.car_w>>

\* a subject that was shrunk to the height limit, tall enough for the 5 %
\* sink to be a whole row, and whose bottom edge is below the horizon row
C27_Witness ==
    /\ PlaceReturned
    /\ ret.shrunk
    /\ ret.car_h >= 20
    /\ ret.car_position[2] + ret.car_h > TruncDiv(args.out_h * 65, 100)

\* a subject that was not scaled because it already fits
C27_WitnessUnscaled ==
    /\ PlaceReturned
    /\ ~ret.shrunk
    /\ ret.car_w = args.image_w
    /\ ret.car_position[1] > 0


(***************************************************************************)
(* The two placements of create_final_composite (composite.py 287-302) on  *)
(* the sizes alone: with auto_position the position comes from             *)
(* auto_position_car with its default horizon_ratio, without it            *)
(* composite_final receives car_position = None and computes its own       *)
(* (lines 81-85).                                                          *)
(***************************************************************************)
call_place_final_composite ==
    /\ pc = "idle"
    /\ \E bg_w \in 1 .. PlaceMax, bg_h \in (1 .. PlaceMax) \cup {4 * PlaceMax},
          image_w \in 1 .. PlaceMax, image_h \in (1 .. PlaceMax) \cup {4 * PlaceMax},
          auto_scale \in BOOLEAN:
          LET s == scale_dims(image_w, image_h, bg_w, bg_h, 75, 50)
              shrink == auto_scale /\ s.shrink
              raised == shrink /\ (s.new_w <= 0 \/ s.new_h <= 0)
              car_w == IF shrink THEN s.new_w ELSE image_w
              car_h == IF shrink THEN s.new_h ELSE image_h
          IN  /\ args' = [fn |-> "place_final_composite", bg_w |-> bg_w, bg_h |-> bg_h,
                          image_w |-> image_w, image_h |-> image_h,
                          auto_scale |-> auto_scale]
              /\ ret' = IF raised THEN [raised |-> TRUE]
                        ELSE [raised |-> FALSE, car_w |-> car_w, car_h |-> car_h,
                              auto_position |-> auto_position_car(bg_w, bg_h, car_w, car_h, 65),
                              no_position |-> default_position(bg_w, bg_h, car_w, car_h)]
    /\ pc' = "returned"
    /\ UNCHANGED compositeVars

SpecPlaceFinal == Init /\ [][call_place_final_composite]_vars

(***************************************************************************)
(* C28: the default placement of composite_final (car_position = None) is  *)
(* the placement of auto_position_car with its default horizon_ratio, for  *)
(* every canvas size and subject size, so create_final_composite places    *)
(* the subject alike with auto_position = True and auto_position = False.  *)
(***************************************************************************)
C28_DefaultPlacementIsAuto ==
    (pc = "returned" /\ args.fn = "place_final_composite" /\ ~ret.raised) =>
        ret.no_position = ret.auto_position


(***************************************************************************)
(* SpyneCloneProcessor.process and process_batch (process_image.py         *)
(* 165-404) as control flow.  A stage either completes or raises inside    *)
(* the try block; cv2.imwrite, whose return value line 351 discards, can   *)
(* also return False without raising and without writing a file (an        *)
(* output directory that does not exist or cannot be written to).  A       *)
(* direct call of process is a batch of one path.                          *)
(***************************************************************************)
MaxBatch == 2

\* the stages of lines 197-351 in order; the first seven record an entry in
\* results['stages']
ProcessStages ==
    <<"load", "segmentation", "edge_smoothing", "car_extraction", "background",
      "shadows", "reflection", "composite", "post_processing", "save">>

\* lines 384-404 up to the first loop iteration, or a call of process
call_process_batch ==
    /\ pc = "idle"
    /\ \E n \in 0 .. MaxBatch, fn \in {"process", "process_batch"},
          add_shadows \in BOOLEAN, add_reflection \in BOOLEAN:
          \E input_paths \in [1 .. n -> {"in/car.jpg", "old/car.jpg", "in/van.png"}]:
              /\ fn = "process" => n = 1
              /\ args' = [fn |-> fn, input_paths |-> input_paths,
                          add_shadows |-> add_shadows, add_reflection |-> add_reflection]
              /\ ret' = [i |-> 1, stage |-> 1, stages |-> <<>>, results |-> <<>>,
                         written |-> {}, raised |-> FALSE]
    /\ pc' = "batch"
    /\ UNCHANGED compositeVars

\* one stage of process for input_paths[i]: lines 196-367
process_stage ==
    /\ pc = "batch"
    /\ ret.i <= Len(args.input_paths)
    /\ \E outcome \in {"completes", "raises", "returns_false"}:
          LET input_path == args.input_paths[ret.i]
              stem == CASE input_path = "in/van.png" -> "van" [] OTHER -> "car"
              output_path == IF args.fn = "process" THEN "out/result.jpg"
                             ELSE "out/" \o stem \o "_processed.jpg"
              name == ProcessStages[ret.stage]
              \* lines 265 and 301: a stage that is switched off is not entered
              skipped == \/ name = "shadows" /\ ~args.add_shadows
                         \/ name = "reflection" /\ ~args.add_reflection
              stages == IF ret.stage <= 7 /\ ~skipped /\ outcome = "completes"
                        THEN Append(ret.stages, name) ELSE ret.stages
              finished == [input |-> input_path, output |-> output_path,
                           success |-> outcome # "raises",
                           error |-> outcome = "raises", stages |-> stages]
          IN  /\ outcome = "returns_false" => name = "save"
              /\ skipped => outcome = "completes"
              /\ ret' = IF outcome = "completes" /\ name # "save"
                        THEN [ret EXCEPT !.stage = @ + 1, !.stages = stages]
                        ELSE [ret EXCEPT !.i = @ + 1, !.stage = 1, !.stages = <<>>,
                                         !.results = Append(@, finished),
                                         !.written = IF outcome = "completes"
                                                     THEN @ \cup {ret.i} ELSE @]
    /\ UNCHANGED <<pc, args>>
    /\ UNCHANGED compositeVars

\* lines 399-404: the loop is over, the list is returned
process_batch_return ==
    /\ pc = "batch"
    /\ ret.i > Len(args.input_paths)
    /\ pc' = "returned"
    /\ UNCHANGED <<args, ret>>
    /\ UNCHANGED compositeVars

SpecBatch == Init /\ [][call_process_batch \/ process_stage \/ process_batch_return]_vars

(***************************************************************************)
(* C29: process never raises; a failure in any stage stops the remaining   *)
(* stages and gives a result with success = False and an 'error' text;     *)
(* success = True is returned only after the output file was written;      *)
(* process_batch returns exactly one result per input path, in input       *)
(* order, and a failed input does not stop the inputs after it.            *)
(***************************************************************************)
BatchReturned == pc = "returned" /\ args.fn \in {"process", "process_batch"}

C29_OneResultEach ==
    BatchReturned =>
        /\ ~ret.raised
        /\ Len(ret.results) = Len(args.input_paths)
        /\ \A i \in 1 .. Len(ret.results):
              /\ ret.results[i].input = args.input_paths[i]
              /\ ret.results[i].success # ret.results[i].error

C29_SuccessMeansWritten ==
    BatchReturned =>
        /\ C29_OneResultEach
        /\ \A i \in 1 .. Len(ret.results): ret.results[i].success => i \in ret.written


(***************************************************************************)
(* Two /process_video requests served concurrently (video360_server.py     *)
(* 990-1051).  Each request keeps its upload in a temporary directory of   *)
(* its own; what the two share is OUTPUT_DIR (lines 36-38).  A step is one *)
(* file-system call on OUTPUT_DIR or one stretch of request-local work.    *)
(* args holds the two requests' parameters; ret holds OUTPUT_DIR, as the   *)
(* set of its files with the request each was written by (0: an earlier    *)
(* request), and each request's position and locals.                       *)
(***************************************************************************)
MaxVideoFrames == 2

\* the two requests are accepted: lines 992-1016
call_process_video ==
    /\ pc = "idle"
    /\ \E frames \in [1 .. 2 -> 0 .. MaxVideoFrames],
          bg_mode \in [1 .. 2 -> {"transparent", "studio"}],
          leftover \in SUBSET {<<0, "png">>, <<1, "jpg">>}:
          /\ args' = [fn |-> "process_video", frames |-> frames, bg_mode |-> bg_mode]
          /\ ret' = [dir |-> {[name |-> f, from |-> 0] : f \in leftover},
                     req |-> [r \in 1 .. 2 |-> [at |-> "listdir", todo |-> {}, saved |-> 0]]]
    /\ pc' = "serving"
    /\ UNCHANGED compositeVars

\* line 1019: os.listdir(OUTPUT_DIR)
request_listdir ==
    /\ pc = "serving"
    /\ \E r \in 1 .. 2:
          /\ ret.req[r].at = "listdir"
          /\ ret' = [ret EXCEPT !.req[r].at = "remove",
                                !.req[r].todo = {f.name : f \in ret.dir}]
    /\ UNCHANGED <<pc, args>>
    /\ UNCHANGED compositeVars

\* line 1020: os.remove of the next listed file, which raises when the file is
\* gone; after the last one, lines 1022-1031: extract_frames on the request's
\* own video (no frame: ValueError) and segment_frames
request_remove ==
    /\ pc = "serving"
    /\ \E r \in 1 .. 2:
          /\ ret.req[r].at = "remove"
          /\ IF ret.req[r].todo = {}
             THEN ret' = [ret EXCEPT !.req[r].at = IF args.frames[r] = 0 THEN "error"
                                                   ELSE "save"]
             ELSE \E f \in ret.req[r].todo:
                     IF \E e \in ret.dir: e.name = f
                     THEN ret' = [ret EXCEPT !.dir = {e \in @ : e.name # f},
                                             !.req[r].todo = @ \ {f}]
                     ELSE ret' = [ret EXCEPT !.req[r].at = "error"]
    /\ UNCHANGED <<pc, args>>
    /\ UNCHANGED compositeVars

\* save_frames, lines 359-383: frame.save of car360_{i:03d}.{ext}, creating the
\* file or replacing the one of that name
request_save ==
    /\ pc = "serving"
    /\ \E r \in 1 .. 2:
          /\ ret.req[r].at = "save"
          /\ LET ext == IF args.bg_mode[r] = "transparent" THEN "png" ELSE "jpg"
                 f == <<ret.req[r].saved, ext>>
             IN  ret' = [ret EXCEPT
                           !.dir = {e \in @ : e.name # f} \cup {[name |-> f, from |-> r]},
                           !.req[r].saved = @ + 1,
                           !.req[r].at = IF ret.req[r].saved + 1 = args.frames[r]
                                         THEN "respond" ELSE "save"]
    /\ UNCHANGED <<pc, args>>
    /\ UNCHANGED compositeVars

\* lines 1037-1045: the response naming the saved frames, or lines 1047-1050:
\* the 500 response
request_respond ==
    /\ pc = "serving"
    /\ \E r \in 1 .. 2:
          /\ ret.req[r].at \in {"respond", "error"}
          /\ ret' = [ret EXCEPT !.req[r].at = IF @ = "respond" THEN "responded" ELSE "failed"]
    /\ UNCHANGED <<pc, args>>
    /\ UNCHANGED compositeVars

SpecServer ==
    Init /\ [][call_process_video \/ request_listdir \/ request_remove
               \/ request_save \/ request_respond]_vars

(***************************************************************************)
(* C30: for any interleaving of two concurrent /process_video requests,    *)
(* every frame file named in a request's successful response exists in     *)
(* OUTPUT_DIR at the moment the response is returned and was produced from *)
(* that request's own video.                                               *)
(***************************************************************************)
C30_ResponseFramesAreOwn ==
    pc = "serving" =>
        \A r \in 1 .. 2:
            ret.req[r].at = "respond" =>
                \A i \in 0 .. (args.frames[r] - 1):
                    [name |-> <<i, IF args.bg_mode[r] = "transparent" THEN "png" ELSE "jpg">>,
                     from |-> r] \in ret.dir

====
